---- MODULE Spec2Model ----
(***************************************************************************)
(* Alarm classification and ignore-rule evaluation of                      *)
(* qaops_slack_alarm_analyzer.                                             *)
(*                                                                         *)
(* Representation.                                                         *)
(*  - A Python str is a sequence of one-character strings.  The characters *)
(*    are the printable ASCII ones and the blanks "\t", "\n", "\r", "\f";   *)
(*    the grave accent and the vertical tab cannot be written.             *)
(*  - A dict is a record of the keys that are present, d.get(k, default)   *)
(*    is Get(d, k, default).  Where the code only tests the truth value of *)
(*    a str or reads it with .get(k, ''), a missing key and '' are both    *)
(*    the empty sequence.                                                  *)
(*  - None is the empty sequence and an optional value x is <<x>>.  Where   *)
(*    a str is expected and the code tells None from '', None is PyNone.   *)
(*  - A naive datetime is [date, time, us, fold]: days since 1970-01-01,   *)
(*    seconds since midnight, microseconds, and the fold of PEP 495.       *)
(*    A time of the day is [s, us].                                        *)
(*  - An absolute instant is an integer number of epoch seconds where it   *)
(*    is known to lie between 1901 and 2038, and <<days since 1970-01-01,   *)
(*    second of the day>> elsewhere; a float timestamp with a fractional   *)
(*    part is [s, us].                                                     *)
(*  - A rule path is the list of its '.'-separated segments.               *)
(***************************************************************************)
EXTENDS Integers, Sequences, FiniteSets, TLC

VARIABLES
    host,   \* the local timezone of the machine that runs the analysis
    call,   \* the operation last applied: its name, inputs and outcome
    run,    \* the merge_analysis_results in progress: None, or its inputs, its
            \* position in them and the merged result so far
    heap,   \* the list objects that are shared by reference: the items of the
            \* list at each address 1..Len(heap)
    engine  \* the IgnoreRuleParser in use: None, or the address of its
            \* ignore_rules

vars == <<host, call, run, heap, engine>>

None == <<>>
Some(x) == <<x>>

\* None where a str may stand
PyNone == <<"None">>

\* the truth value of a str or None
Truthy(v) == v # <<>> /\ v # PyNone

\* dict.get(k, default)
Get(d, k, default) == IF k \in DOMAIN d THEN d[k] ELSE default

\* the outcome of a call: the value returned or the exception raised
Raise(exc) == [kind |-> "raise", exc |-> exc]
Value(v) == [kind |-> "value", value |-> v]

(***************************************************************************)
(* Strings                                                                 *)
(***************************************************************************)
LowerMap ==
    [A |-> "a", B |-> "b", C |-> "c", D |-> "d", E |-> "e", F |-> "f", G |-> "g",
     H |-> "h", I |-> "i", J |-> "j", K |-> "k", L |-> "l", M |-> "m", N |-> "n",
     O |-> "o", P |-> "p", Q |-> "q", R |-> "r", S |-> "s", T |-> "t", U |-> "u",
     V |-> "v", W |-> "w", X |-> "x", Y |-> "y", Z |-> "z"]

\* str.lower(), one character
LowerChar(c) == IF c \in DOMAIN LowerMap THEN LowerMap[c] ELSE c

\* str.lower()
Lower(s) == [i \in 1..Len(s) |-> LowerChar(s[i])]

\* s[i:] starts with p
StartsWithAt(s, i, p) ==
    /\ i + Len(p) - 1 <= Len(s)
    /\ \A k \in 1..Len(p) : s[i + k - 1] = p[k]

\* p in s
IsSubstring(p, s) == \E i \in 1..(Len(s) + 1) : StartsWithAt(s, i, p)

\* s[i:]
Tail_(s, i) == SubSeq(s, i, Len(s))

\* str.replace(old, new): left to right, non-overlapping
RECURSIVE StrReplace(_, _, _)
StrReplace(s, old, new) ==
    IF s = <<>> THEN <<>>
    ELSE IF StartsWithAt(s, 1, old)
         THEN new \o StrReplace(Tail_(s, Len(old) + 1), old, new)
         ELSE <<s[1]>> \o StrReplace(Tail_(s, 2), old, new)

Digits == {"0", "1", "2", "3", "4", "5", "6", "7", "8", "9"}

DigitVal == [c \in Digits |->
    CASE c = "0" -> 0 [] c = "1" -> 1 [] c = "2" -> 2 [] c = "3" -> 3 [] c = "4" -> 4
      [] c = "5" -> 5 [] c = "6" -> 6 [] c = "7" -> 7 [] c = "8" -> 8 [] c = "9" -> 9]

\* the value of a string of decimal digits
RECURSIVE DecimalValue(_)
DecimalValue(s) ==
    IF s = <<>> THEN 0
    ELSE 10 * DecimalValue(SubSeq(s, 1, Len(s) - 1)) + DigitVal[s[Len(s)]]

\* the smallest index >= i of s that holds c, or Len(s) + 1
RECURSIVE IndexFrom(_, _, _)
IndexFrom(s, i, c) ==
    IF i > Len(s) THEN Len(s) + 1
    ELSE IF s[i] = c THEN i ELSE IndexFrom(s, i + 1, c)

\* the end (exclusive) of the run of digits of s that starts at i
RECURSIVE DigitRunEnd(_, _)
DigitRunEnd(s, i) ==
    IF i > Len(s) \/ s[i] \notin Digits THEN i ELSE DigitRunEnd(s, i + 1)

\* the whitespace of str.strip(), float() and the \s of re
Whitespace == {" ", "\t", "\n", "\r", "\f"}

\* str.strip()
RECURSIVE Strip(_)
Strip(s) ==
    IF s = <<>> THEN s
    ELSE IF s[1] \in Whitespace THEN Strip(Tail(s))
    ELSE IF s[Len(s)] \in Whitespace THEN Strip(SubSeq(s, 1, Len(s) - 1))
    ELSE s

\* the end (exclusive) of the run of whitespace of s that starts at i
RECURSIVE SpaceRunEnd(_, _)
SpaceRunEnd(s, i) ==
    IF i > Len(s) \/ s[i] \notin Whitespace THEN i ELSE SpaceRunEnd(s, i + 1)

(***************************************************************************)
(* re: re.compile(pattern, re.IGNORECASE) and Pattern.search               *)
(*                                                                         *)
(* The dialect: literals, '.', '^', '$', '|', groups '(...)', '(?:...)',    *)
(* '(?i:...)', lookaheads '(?=...)' and '(?!...)', comments '(?#...)', the    *)
(* quantifiers '*', '+', '?', '{m}', '{m,}', '{,n}', '{m,n}' up to            *)
(* RxMaxCount and their lazy forms, sets '[...]' with ranges and negation,   *)
(* the escapes \d \D \s \S \w \W \A \Z \b \B \n \t \r \f \a \v \xhh, the      *)
(* octal escapes, escaped punctuation, and the global flags i, a and u      *)
(* at the start of the pattern.  Back-references, named groups,             *)
(* look-behind, conditionals, atomic groups, possessive quantifiers, the    *)
(* flags m, s, x and t, scoped flags other than '(?i:', larger counts and    *)
(* \u \U \N are outside the dialect: re_compile says so, and nothing is     *)
(* derived about them.  The characters of a pattern and of a text are those *)
(* of ASCII a string of the model can hold; a pattern denotes characters    *)
(* by their codes, 0 to 255.                                               *)
(***************************************************************************)
\* the characters of code 32 (' ') to 126 ('~'), in order; the grave accent
\* (code 96) cannot be written in a string of the model and its place is empty
AsciiPrintable ==
    <<" ", "!", "\"", "#", "$", "%", "&", "'", "(", ")", "*", "+", ",", "-", ".", "/",
      "0", "1", "2", "3", "4", "5", "6", "7", "8", "9", ":", ";", "<", "=", ">", "?",
      "@", "A", "B", "C", "D", "E", "F", "G", "H", "I", "J", "K", "L", "M", "N", "O",
      "P", "Q", "R", "S", "T", "U", "V", "W", "X", "Y", "Z", "[", "\\", "]", "^", "_",
      "", "a", "b", "c", "d", "e", "f", "g", "h", "i", "j", "k", "l", "m", "n", "o",
      "p", "q", "r", "s", "t", "u", "v", "w", "x", "y", "z", "{", "|", "}", "~">>

\* the characters a string of the model can hold
Chars ==
    {"\t", "\n", "\f", "\r"}
        \cup {AsciiPrintable[i] : i \in {k \in 1..Len(AsciiPrintable) : AsciiPrintable[k] # ""}}

\* ord(c) for each character of the model
OrdOf ==
    [c \in Chars |->
        CASE c = "\t" -> 9
          [] c = "\n" -> 10
          [] c = "\f" -> 12
          [] c = "\r" -> 13
          [] OTHER -> 31 + (CHOOSE i \in 1..Len(AsciiPrintable) : AsciiPrintable[i] = c)]

\* ord(c)
Ord(c) == OrdOf[c]

\* the code of the lower case and of the upper case of the character of code n,
\* as far as the characters of ASCII are concerned
LowerCode(n) == IF n >= 65 /\ n <= 90 THEN n + 32 ELSE n
UpperCode(n) == IF n >= 97 /\ n <= 122 THEN n - 32 ELSE n

\* str.upper(), one character
UpperChar(c) ==
    IF \E u \in DOMAIN LowerMap : LowerMap[u] = c
    THEN CHOOSE u \in DOMAIN LowerMap : LowerMap[u] = c
    ELSE c

AsciiLetters == DOMAIN LowerMap \cup {LowerMap[u] : u \in DOMAIN LowerMap}
WordChars == AsciiLetters \cup Digits \cup {"_"}
HexDigits == Digits \cup {"a", "b", "c", "d", "e", "f", "A", "B", "C", "D", "E", "F"}
OctDigits == {"0", "1", "2", "3", "4", "5", "6", "7"}

HexVal(c) ==
    IF c \in Digits THEN DigitVal[c]
    ELSE CASE LowerChar(c) = "a" -> 10 [] LowerChar(c) = "b" -> 11
           [] LowerChar(c) = "c" -> 12 [] LowerChar(c) = "d" -> 13
           [] LowerChar(c) = "e" -> 14 [] LowerChar(c) = "f" -> 15

\* int(s, 8)
RECURSIVE OctalValue(_)
OctalValue(s) ==
    IF s = <<>> THEN 0
    ELSE 8 * OctalValue(SubSeq(s, 1, Len(s) - 1)) + DigitVal[s[Len(s)]]

\* source.getwhile(n, OCTDIGITS) from position i on: the end (exclusive) of the
\* run of at most n octal digits
RECURSIVE OctRunEnd(_, _, _)
OctRunEnd(s, i, n) ==
    IF n = 0 \/ i > Len(s) \/ s[i] \notin OctDigits THEN i ELSE OctRunEnd(s, i + 1, n - 1)

\* the categories \d \D \s \S \w \W
InCategory(k, c) ==
    CASE k = "d" -> c \in Digits
      [] k = "D" -> c \notin Digits
      [] k = "s" -> c \in Whitespace
      [] k = "S" -> c \notin Whitespace
      [] k = "w" -> c \in WordChars
      [] k = "W" -> c \notin WordChars

\* the largest count of a quantifier '{m,n}' the dialect holds
RxMaxCount == 1000

\* the outcomes of the parser: a node (or the items parsed so far) and the
\* position of the next character, an error, or a pattern outside the dialect
RxOk(node, pos) == [st |-> "ok", node |-> node, pos |-> pos]
RxError == [st |-> "error", node |-> <<>>, pos |-> 0]
RxOutside == [st |-> "outside", node |-> <<>>, pos |-> 0]
RxValueError == [st |-> "ValueError", node |-> <<>>, pos |-> 0]

RECURSIVE RxParseAlt(_, _, _)
RECURSIVE RxParseSeq(_, _, _)

\* sre_parse._parse, the quantifier read up to position j - 1 applied to the
\* last item; a '?' after it makes it lazy, which search does not tell apart
RxRepeat(p, j, items, min, max) ==
    IF items = <<>> \/ items[Len(items)][1] = "at" THEN RxError
    ELSE IF items[Len(items)][1] = "rep" THEN RxError
    ELSE IF j <= Len(p) /\ p[j] = "+" THEN RxOutside
    ELSE RxOk([items EXCEPT ![Len(items)] = <<"rep", @, min, max>>],
              IF j <= Len(p) /\ p[j] = "?" THEN j + 1 ELSE j)

\* a count of '{m,n}' too long to be read as a number of the dialect
RxLongCount(digits) == Len(digits) > 9 \/ DecimalValue(digits) > RxMaxCount

\* sre_parse._parse at '{': a quantifier when it reads {m}, {m,}, {,n} or {m,n},
\* the literal brace otherwise
RxBrace(p, i, items) ==
    LET a == DigitRunEnd(p, i + 1)
        comma == a <= Len(p) /\ p[a] = ","
        b == IF comma THEN DigitRunEnd(p, a + 1) ELSE a
        lo == SubSeq(p, i + 1, a - 1)
        hi == IF comma THEN SubSeq(p, a + 1, b - 1) ELSE lo
        min == IF lo # <<>> THEN DecimalValue(lo) ELSE 0
        max == IF hi # <<>> THEN DecimalValue(hi) ELSE -1
    IN  IF i + 1 <= Len(p) /\ p[i + 1] = "}" THEN RxOk(Append(items, <<"lit", Ord("{")>>), i + 1)
        ELSE IF ~(b <= Len(p) /\ p[b] = "}") THEN RxOk(Append(items, <<"lit", Ord("{")>>), i + 1)
        ELSE IF RxLongCount(lo) \/ RxLongCount(hi) THEN RxOutside
        ELSE IF max # -1 /\ max < min THEN RxError
        ELSE RxRepeat(p, b + 1, items, min, max)

\* the escapes \xhh and \ooo of both sre_parse._escape and
\* sre_parse._class_escape at p[i] = '\': the code and the position after it
RxHexEscape(p, i) ==
    IF i + 3 <= Len(p) /\ p[i + 2] \in HexDigits /\ p[i + 3] \in HexDigits
    THEN RxOk(16 * HexVal(p[i + 2]) + HexVal(p[i + 3]), i + 4)
    ELSE RxError
RxOctalEscape(p, i) ==
    LET j == OctRunEnd(p, i + 1, 3)
    IN  IF OctalValue(SubSeq(p, i + 1, j - 1)) > 255 THEN RxError
        ELSE RxOk(OctalValue(SubSeq(p, i + 1, j - 1)), j)

\* ESCAPES of sre_parse: the code an escape letter stands for
EscapeCode(c) ==
    CASE c = "a" -> 7 [] c = "b" -> 8 [] c = "f" -> 12 [] c = "n" -> 10
      [] c = "r" -> 13 [] c = "t" -> 9 [] c = "v" -> 11

\* the code read by a numeric escape as the set item or the literal it denotes
RxCodeAs(kind, items, r) ==
    IF r.st # "ok" THEN r
    ELSE IF kind = "c" THEN RxOk(<<"c", r.node>>, r.pos)
    ELSE RxOk(Append(items, <<"lit", r.node>>), r.pos)

\* sre_parse._class_escape: the escape at p[i] = '\' read as an item of a set,
\* with the position after it
RxClassEscape(p, i) ==
    IF i >= Len(p) THEN RxError
    ELSE LET c == p[i + 1]
         IN  CASE c \in {"d", "D", "s", "S", "w", "W"} -> RxOk(<<"k", c>>, i + 2)
               [] c \in {"a", "b", "f", "n", "r", "t", "v"} ->
                      RxOk(<<"c", EscapeCode(c)>>, i + 2)
               [] c = "x" -> RxCodeAs("c", <<>>, RxHexEscape(p, i))
               [] c \in OctDigits -> RxCodeAs("c", <<>>, RxOctalEscape(p, i))
               [] c \in {"u", "U", "N"} -> RxOutside
               [] c \in AsciiLetters \cup Digits -> RxError
               [] c \in Chars -> RxOk(<<"c", Ord(c)>>, i + 2)
               [] OTHER -> RxOutside

\* one member of a set at p[i]: an escape or the character itself
RxClassMember(p, i) ==
    IF p[i] = "\\" THEN RxClassEscape(p, i)
    ELSE IF p[i] \in Chars THEN RxOk(<<"c", Ord(p[i])>>, i + 1)
    ELSE RxOutside

RECURSIVE RxClassLoop(_, _, _, _, _)
\* the set once code1 is read and a '-' with the member code2 follows it
RxClassRange(p, items, neg, set, code1, code2) ==
    IF code2.st # "ok" THEN code2
    ELSE IF code1[1] # "c" \/ code2.node[1] # "c" THEN RxError
    ELSE IF code2.node[2] < code1[2] THEN RxError
    ELSE RxClassLoop(p, code2.pos, items, neg,
                     Append(set, <<"r", code1[2], code2.node[2]>>))

\* the set once its member code1 is read
RxClassAfter(p, items, neg, set, code1) ==
    IF code1.st # "ok" THEN code1
    ELSE IF code1.pos <= Len(p) /\ p[code1.pos] = "-"
    THEN IF code1.pos + 1 > Len(p) THEN RxError
         ELSE IF p[code1.pos + 1] = "]"
         THEN RxOk(Append(items, <<"set", neg, set \o <<code1.node, <<"c", Ord("-")>>>>>>),
                   code1.pos + 2)
         ELSE RxClassRange(p, items, neg, set, code1.node,
                           RxClassMember(p, code1.pos + 1))
    ELSE RxClassLoop(p, code1.pos, items, neg, Append(set, code1.node))

\* sre_parse._parse inside '[...]' from position i on
RxClassLoop(p, i, items, neg, set) ==
    IF i > Len(p) THEN RxError
    ELSE IF p[i] = "]" /\ set # <<>> THEN RxOk(Append(items, <<"set", neg, set>>), i + 1)
    ELSE RxClassAfter(p, items, neg, set, RxClassMember(p, i))

\* sre_parse._parse at '['
RxClass(p, i, items) ==
    IF i + 1 <= Len(p) /\ p[i + 1] = "^"
    THEN RxClassLoop(p, i + 2, items, TRUE, <<>>)
    ELSE RxClassLoop(p, i + 1, items, FALSE, <<>>)

\* sre_parse._escape at '\' and a digit 1 to 9: three octal digits are a
\* character, anything else is a reference to a group
RxDigitEscape(p, i, items) ==
    IF OctRunEnd(p, i + 1, 3) = i + 4 THEN RxCodeAs("lit", items, RxOctalEscape(p, i))
    ELSE RxOutside

\* sre_parse._escape at p[i] = '\'
RxEscape(p, i, items) ==
    IF i >= Len(p) THEN RxError
    ELSE LET c == p[i + 1]
         IN  CASE c \in {"d", "D", "s", "S", "w", "W"} ->
                      RxOk(Append(items, <<"set", FALSE, <<<<"k", c>>>>>>), i + 2)
               [] c \in {"A", "Z", "b", "B"} -> RxOk(Append(items, <<"at", c>>), i + 2)
               [] c \in {"a", "f", "n", "r", "t", "v"} ->
                      RxOk(Append(items, <<"lit", EscapeCode(c)>>), i + 2)
               [] c = "x" -> RxCodeAs("lit", items, RxHexEscape(p, i))
               [] c = "0" -> RxCodeAs("lit", items, RxOctalEscape(p, i))
               [] c \in Digits \ {"0"} -> RxDigitEscape(p, i, items)
               [] c \in {"u", "U", "N"} -> RxOutside
               [] c \in AsciiLetters -> RxError
               [] c \in Chars -> RxOk(Append(items, <<"lit", Ord(c)>>), i + 2)
               [] OTHER -> RxOutside

\* a group once its body is parsed: the ')' has to follow
RxGroupClose(p, items, kind, r) ==
    IF r.st # "ok" THEN r
    ELSE IF r.pos > Len(p) THEN RxError
    ELSE RxOk(Append(items, IF kind = "grp" THEN <<"grp", r.node>>
                            ELSE <<"la", kind = "not", r.node>>),
              r.pos + 1)

\* the ')' that ends the comment read from position i on, or Len(p) + 1: the
\* tokenizer reads a backslash and the character after it as one
RECURSIVE RxCommentEnd(_, _)
RxCommentEnd(p, i) ==
    IF i > Len(p) THEN Len(p) + 1
    ELSE IF p[i] = "\\" THEN RxCommentEnd(p, i + 2)
    ELSE IF p[i] = ")" THEN i
    ELSE RxCommentEnd(p, i + 1)

\* FLAGS of sre_parse
FlagLetters == {"i", "L", "m", "s", "x", "a", "t", "u"}

\* the end (exclusive) of the run of flag letters of p that starts at i
RECURSIVE FlagRunEnd(_, _)
FlagRunEnd(p, i) ==
    IF i > Len(p) \/ p[i] \notin FlagLetters THEN i ELSE FlagRunEnd(p, i + 1)

\* sre_parse._parse at '(?' and a flag letter or '-', past the start of the
\* pattern: '(?i:' opens a group, flags up to a ')' are global flags out of
\* place
RxFlagGroup(p, i, items) ==
    LET j == FlagRunEnd(p, i + 2)
    IN  IF j > Len(p) THEN RxOutside
        ELSE IF p[j] = ")" /\ j > i + 2 THEN RxError
        ELSE IF p[j] = ":" /\ SubSeq(p, i + 2, j - 1) = <<"i">>
        THEN RxGroupClose(p, items, "grp", RxParseAlt(p, j + 1, <<>>))
        ELSE RxOutside

\* sre_parse._parse at '('
RxGroup(p, i, items) ==
    IF i + 1 <= Len(p) /\ p[i + 1] = "?"
    THEN IF i + 2 > Len(p) THEN RxError
         ELSE LET c == p[i + 2]
              IN  CASE c = ":" -> RxGroupClose(p, items, "grp", RxParseAlt(p, i + 3, <<>>))
                    [] c = "=" -> RxGroupClose(p, items, "is", RxParseAlt(p, i + 3, <<>>))
                    [] c = "!" -> RxGroupClose(p, items, "not", RxParseAlt(p, i + 3, <<>>))
                    [] c = "#" -> IF RxCommentEnd(p, i + 3) > Len(p) THEN RxError
                                  ELSE RxOk(items, RxCommentEnd(p, i + 3) + 1)
                    [] c \in FlagLetters \cup {"-"} -> RxFlagGroup(p, i, items)
                    [] c \in {"P", "<", "(", ">"} -> RxOutside
                    [] OTHER -> RxError
    ELSE RxGroupClose(p, items, "grp", RxParseAlt(p, i + 1, <<>>))

\* sre_parse._parse: the item at p[i], appended to the items read so far
RxParseItem(p, i, items) ==
    CASE p[i] = "\\" -> RxEscape(p, i, items)
      [] p[i] = "[" -> RxClass(p, i, items)
      [] p[i] = "*" -> RxRepeat(p, i + 1, items, 0, -1)
      [] p[i] = "+" -> RxRepeat(p, i + 1, items, 1, -1)
      [] p[i] = "?" -> RxRepeat(p, i + 1, items, 0, 1)
      [] p[i] = "{" -> RxBrace(p, i, items)
      [] p[i] = "." -> RxOk(Append(items, <<"any">>), i + 1)
      [] p[i] = "^" -> RxOk(Append(items, <<"at", "^">>), i + 1)
      [] p[i] = "$" -> RxOk(Append(items, <<"at", "$">>), i + 1)
      [] p[i] = "(" -> RxGroup(p, i, items)
      [] p[i] \in Chars -> RxOk(Append(items, <<"lit", Ord(p[i])>>), i + 1)
      [] OTHER -> RxOutside

\* the sequence goes on after the item r
RxSeqNext(p, r) ==
    IF r.st # "ok" THEN r ELSE RxParseSeq(p, r.pos, r.node)

\* sre_parse._parse: a sequence of items up to '|', ')' or the end
RxParseSeq(p, i, items) ==
    IF i > Len(p) \/ p[i] \in {"|", ")"} THEN RxOk(<<"cat", items>>, i)
    ELSE RxSeqNext(p, RxParseItem(p, i, items))

\* the alternation goes on after the branch r
RxAltNext(p, branches, r) ==
    IF r.st # "ok" THEN r
    ELSE IF r.pos <= Len(p) /\ p[r.pos] = "|"
    THEN RxParseAlt(p, r.pos + 1, Append(branches, r.node))
    ELSE RxOk(<<"alt", Append(branches, r.node)>>, r.pos)

\* sre_parse._parse_sub: the branches separated by '|'
RxParseAlt(p, i, branches) == RxAltNext(p, branches, RxParseSeq(p, i, <<>>))

\* sre_parse._parse at the start of the pattern, where nothing is parsed yet:
\* comments and global flags from position i on.  The flags i, a and u change
\* nothing for the characters of ASCII; 'L' is refused for a str pattern, and
\* so are 'a' and 'u' in one group.  The outcome holds the flags a and u seen
RECURSIVE RxPrefix(_, _, _)
RxPrefixFlags(p, i, j, seen) ==
    LET letters == {p[k] : k \in (i + 2)..(j - 1)}
    IN  IF "L" \in letters \/ {"a", "u"} \subseteq letters THEN RxError
        ELSE IF letters \cap {"m", "s", "x", "t"} # {} THEN RxOutside
        ELSE RxPrefix(p, j + 1, seen \cup (letters \ {"i"}))
RxPrefix(p, i, seen) ==
    IF StartsWithAt(p, i, <<"(", "?", "#">>)
    THEN IF RxCommentEnd(p, i + 3) > Len(p) THEN RxError
         ELSE RxPrefix(p, RxCommentEnd(p, i + 3) + 1, seen)
    ELSE IF /\ StartsWithAt(p, i, <<"(", "?">>)
            /\ FlagRunEnd(p, i + 2) > i + 2
            /\ FlagRunEnd(p, i + 2) <= Len(p)
            /\ p[FlagRunEnd(p, i + 2)] = ")"
    THEN RxPrefixFlags(p, i, FlagRunEnd(p, i + 2), seen)
    ELSE RxOk(seen, i)

\* sre_parse.parse after _parse_sub: fix_flags refuses the flags a and u
\* together with ValueError, then a ')' left over is an error
RxParseEnd(p, seen, r) ==
    IF r.st # "ok" THEN r
    ELSE IF {"a", "u"} \subseteq seen THEN RxValueError
    ELSE IF r.pos <= Len(p) THEN RxError
    ELSE r

\* the pattern after its comments and global flags
RxParseBody(p, pre) ==
    IF pre.st # "ok" THEN pre ELSE RxParseEnd(p, pre.node, RxParseAlt(p, pre.pos, <<>>))

\* sre_parse.parse
RxParse(p) == RxParseBody(p, RxPrefix(p, 1, {}))

\* what re_compile gives for a pattern outside the dialect
Outside == [kind |-> "outside"]

\* re.compile(pattern, re.IGNORECASE): the parsed pattern, or the re.error or
\* ValueError raised
re_compile(pattern) ==
    LET r == RxParse(pattern)
    IN  CASE r.st = "ok" -> [kind |-> "value", value |-> r.node]
          [] r.st = "error" -> Raise("error")
          [] r.st = "ValueError" -> Raise("ValueError")
          [] r.st = "outside" -> Outside

\* the positions of s a word character stands at
RxWordAt(s, i) == i >= 1 /\ i <= Len(s) /\ s[i] \in WordChars

\* the zero-width assertions at position i of s
RxAt(k, s, i) ==
    CASE k \in {"^", "A"} -> i = 1
      [] k = "$" -> i = Len(s) + 1 \/ (i = Len(s) /\ s[i] = "\n")
      [] k = "Z" -> i = Len(s) + 1
      [] k = "b" -> s # <<>> /\ RxWordAt(s, i - 1) # RxWordAt(s, i)
      [] k = "B" -> s # <<>> /\ RxWordAt(s, i - 1) = RxWordAt(s, i)

\* an item of a set holds the character c, without regard to case: the
\* compiler lowers the members of the set and the matcher the character
RxItemHas(item, c) ==
    CASE item[1] = "c" -> LowerCode(item[2]) = LowerCode(Ord(c))
      [] item[1] = "r" -> \/ item[2] <= LowerCode(Ord(c)) /\ LowerCode(Ord(c)) <= item[3]
                          \/ item[2] <= UpperCode(Ord(c)) /\ UpperCode(Ord(c)) <= item[3]
      [] item[1] = "k" -> InCategory(item[2], c)

\* a set matches c
RxSetHas(neg, set, c) == neg # (\E k \in 1..Len(set) : RxItemHas(set[k], c))

RECURSIVE RxEnds(_, _, _)
RECURSIVE RxRepEnds(_, _, _, _, _)
RECURSIVE RxCatEnds(_, _, _, _)

\* the positions reached from one of P by one more match of node
RxStep(node, s, P) == UNION {RxEnds(node, s, i) : i \in P}

\* the quantifier goes on from the positions Q that one more match of node
\* reaches from P, min to max matches being still to come: once Q = P, more
\* matches reach nothing else
RxRepNext(node, min, max, s, P, Q) ==
    IF Q = P THEN P
    ELSE IF min > 0
    THEN RxRepEnds(node, min - 1, IF max = -1 THEN -1 ELSE max - 1, s, Q)
    ELSE P \cup RxRepEnds(node, 0, IF max = -1 THEN -1 ELSE max - 1, s, Q)

\* the positions at which min to max matches of node in a row end, from P on
RxRepEnds(node, min, max, s, P) ==
    IF P = {} THEN {}
    ELSE IF min = 0 /\ max = 0 THEN P
    ELSE RxRepNext(node, min, max, s, P, RxStep(node, s, P))

\* the positions at which the items k.. of a sequence end, from P on
RxCatEnds(items, k, s, P) ==
    IF k > Len(items) \/ P = {} THEN P
    ELSE RxCatEnds(items, k + 1, s, RxStep(items[k], s, P))

\* the positions at which a match of node that starts at position i of s ends
RxEnds(node, s, i) ==
    CASE node[1] = "lit" ->
             IF i <= Len(s) /\ LowerCode(Ord(s[i])) = LowerCode(node[2]) THEN {i + 1} ELSE {}
      [] node[1] = "any" -> IF i <= Len(s) /\ s[i] # "\n" THEN {i + 1} ELSE {}
      [] node[1] = "set" ->
             IF i <= Len(s) /\ RxSetHas(node[2], node[3], s[i]) THEN {i + 1} ELSE {}
      [] node[1] = "at" -> IF RxAt(node[2], s, i) THEN {i} ELSE {}
      [] node[1] = "cat" -> RxCatEnds(node[2], 1, s, {i})
      [] node[1] = "alt" -> UNION {RxEnds(node[2][k], s, i) : k \in 1..Len(node[2])}
      [] node[1] = "grp" -> RxEnds(node[2], s, i)
      [] node[1] = "la" -> IF (RxEnds(node[3], s, i) = {}) = node[2] THEN {i} ELSE {}
      [] node[1] = "rep" -> RxRepEnds(node[2], node[3], node[4], s, {i})

\* Pattern.search(text) is not None
RxSearch(node, text) == \E i \in 1..(Len(text) + 1) : RxEnds(node, text, i) # {}

\* re.compile(pattern, re.IGNORECASE).search(text) is not None, for a pattern
\* of the dialect that compiles
RegexSearch(pattern, text) == RxSearch(re_compile(pattern).value, text)

(***************************************************************************)
(* Time zones and the datetime library calls the code relies on            *)
(*                                                                         *)
(* The transitions of a zone are <<day, second of the day, UTC offset from  *)
(* then on>> in UTC, as the zone's file of the tz database lists them; the  *)
(* rule in force since the last of them is written out below.              *)
(***************************************************************************)
\* the local mean time in force before the first transition of each zone
RomeLocalMeanTime == 2996
SydneyLocalMeanTime == 36292
TokyoLocalMeanTime == 33539

RomeTransitions ==
    <<
      <<-37641, 83404, 2996>>, <<-27820, 82800, 3600>>, <<-19570, 82800, 7200>>, <<-19451, 79200, 3600>>,
      <<-19269, 82800, 7200>>, <<-19086, 79200, 3600>>, <<-18926, 82800, 7200>>, <<-18715, 79200, 3600>>,
      <<-18569, 82800, 7200>>, <<-18352, 79200, 3600>>, <<-18184, 82800, 7200>>, <<-18002, 79200, 3600>>,
      <<-10793, 82800, 7200>>, <<-9922, 3600, 3600>>, <<-9775, 3600, 7200>>, <<-9586, 3600, 3600>>,
      <<-9404, 3600, 7200>>, <<-9237, 3600, 3600>>, <<-9040, 3600, 7200>>, <<-8875, 82800, 3600>>,
      <<-8691, 3600, 7200>>, <<-8488, 3600, 3600>>, <<-8328, 82800, 7200>>, <<-8125, 82800, 3600>>,
      <<-7977, 3600, 7200>>, <<-7760, 3600, 3600>>, <<-1321, 82800, 7200>>, <<-1195, 79200, 3600>>,
      <<-950, 82800, 7200>>, <<-831, 82800, 3600>>, <<-586, 82800, 7200>>, <<-467, 82800, 3600>>,
      <<-215, 82800, 7200>>, <<-96, 82800, 3600>>, <<149, 82800, 7200>>, <<268, 82800, 3600>>,
      <<506, 82800, 7200>>, <<632, 82800, 3600>>, <<877, 82800, 7200>>, <<1003, 82800, 3600>>,
      <<1248, 82800, 7200>>, <<1367, 82800, 3600>>, <<1605, 82800, 7200>>, <<1731, 82800, 3600>>,
      <<1976, 82800, 7200>>, <<2095, 82800, 3600>>, <<2340, 82800, 7200>>, <<2459, 82800, 3600>>,
      <<2697, 82800, 7200>>, <<2823, 82800, 3600>>, <<3068, 82800, 7200>>, <<3194, 82800, 3600>>,
      <<3432, 82800, 7200>>, <<3558, 82800, 3600>>, <<3748, 3600, 7200>>, <<3923, 3600, 3600>>,
      <<4105, 3600, 7200>>, <<4287, 3600, 3600>>, <<4469, 3600, 7200>>, <<4651, 3600, 3600>>,
      <<4833, 3600, 7200>>, <<5015, 3600, 3600>>, <<5197, 3600, 7200>>, <<5386, 3600, 3600>>,
      <<5568, 3600, 7200>>, <<5750, 3600, 3600>>, <<5932, 3600, 7200>>, <<6114, 3600, 3600>>,
      <<6296, 3600, 7200>>, <<6478, 3600, 3600>>, <<6660, 3600, 7200>>, <<6842, 3600, 3600>>,
      <<7024, 3600, 7200>>, <<7206, 3600, 3600>>, <<7388, 3600, 7200>>, <<7577, 3600, 3600>>,
      <<7759, 3600, 7200>>, <<7941, 3600, 3600>>, <<8123, 3600, 7200>>, <<8305, 3600, 3600>>,
      <<8487, 3600, 7200>>, <<8669, 3600, 3600>>, <<8851, 3600, 7200>>, <<9033, 3600, 3600>>,
      <<9215, 3600, 7200>>, <<9397, 3600, 3600>> >>

SydneyTransitions ==
    <<
      <<-27363, 50108, 36000>>, <<-19359, 57600, 39600>>, <<-19276, 57600, 36000>>, <<-10228, 57600, 39600>>,
      <<-10141, 57600, 36000>>, <<-9959, 57600, 39600>>, <<-9777, 57600, 36000>>, <<-9588, 57600, 39600>>,
      <<-9413, 57600, 36000>>, <<667, 57600, 39600>>, <<786, 57600, 36000>>, <<1031, 57600, 39600>>,
      <<1157, 57600, 36000>>, <<1395, 57600, 39600>>, <<1521, 57600, 36000>>, <<1759, 57600, 39600>>,
      <<1885, 57600, 36000>>, <<2123, 57600, 39600>>, <<2256, 57600, 36000>>, <<2494, 57600, 39600>>,
      <<2620, 57600, 36000>>, <<2858, 57600, 39600>>, <<2984, 57600, 36000>>, <<3222, 57600, 39600>>,
      <<3348, 57600, 36000>>, <<3586, 57600, 39600>>, <<3712, 57600, 36000>>, <<3950, 57600, 39600>>,
      <<4076, 57600, 36000>>, <<4314, 57600, 39600>>, <<4475, 57600, 36000>>, <<4685, 57600, 39600>>,
      <<4811, 57600, 36000>>, <<5049, 57600, 39600>>, <<5175, 57600, 36000>>, <<5413, 57600, 39600>>,
      <<5539, 57600, 36000>>, <<5777, 57600, 39600>>, <<5917, 57600, 36000>>, <<6134, 57600, 39600>>,
      <<6281, 57600, 36000>>, <<6505, 57600, 39600>>, <<6652, 57600, 36000>>, <<6876, 57600, 39600>>,
      <<7016, 57600, 36000>>, <<7240, 57600, 39600>>, <<7366, 57600, 36000>>, <<7604, 57600, 39600>>,
      <<7730, 57600, 36000>>, <<7968, 57600, 39600>>, <<8094, 57600, 36000>>, <<8332, 57600, 39600>>,
      <<8465, 57600, 36000>>, <<8703, 57600, 39600>>, <<8829, 57600, 36000>>, <<9067, 57600, 39600>>,
      <<9193, 57600, 36000>>, <<9431, 57600, 39600>>, <<9585, 57600, 36000>>, <<9795, 57600, 39600>>,
      <<9949, 57600, 36000>>, <<10159, 57600, 39600>>, <<10313, 57600, 36000>>, <<10523, 57600, 39600>>,
      <<10677, 57600, 36000>>, <<10894, 57600, 39600>>, <<11041, 57600, 36000>>, <<11195, 57600, 39600>>,
      <<11405, 57600, 36000>>, <<11622, 57600, 39600>>, <<11776, 57600, 36000>>, <<11986, 57600, 39600>>,
      <<12140, 57600, 36000>>, <<12350, 57600, 39600>>, <<12504, 57600, 36000>>, <<12721, 57600, 39600>>,
      <<12868, 57600, 36000>>, <<13085, 57600, 39600>>, <<13239, 57600, 36000>>, <<13449, 57600, 39600>>,
      <<13596, 57600, 36000>>, <<13813, 57600, 39600>> >>

TokyoTransitions ==
    <<
      <<-29951, 54000, 32400>>, <<-7915, 54000, 36000>>, <<-7782, 54000, 32400>>, <<-7579, 54000, 36000>>,
      <<-7418, 54000, 32400>>, <<-7180, 54000, 36000>>, <<-7054, 54000, 32400>>, <<-6816, 54000, 36000>>,
      <<-6690, 54000, 32400>> >>

\* an instant, or the reading of a wall clock, as <<days since 1970-01-01,
\* second of the day>>
PairOf(u) == <<u \div 86400, u % 86400>>
PairAdd(p, n) == <<p[1] + (p[2] + n) \div 86400, (p[2] + n) % 86400>>
PairLess(p, q) == p[1] < q[1] \/ (p[1] = q[1] /\ p[2] < q[2])

\* days since 1970-01-01 of the civil date y-m-d (proleptic Gregorian)
DaysFromCivil(y, m, d) ==
    LET yy  == IF m <= 2 THEN y - 1 ELSE y
        era == yy \div 400
        yoe == yy - era * 400
        mp  == IF m > 2 THEN m - 3 ELSE m + 9
        doy == (153 * mp + 2) \div 5 + d - 1
        doe == yoe * 365 + yoe \div 4 - yoe \div 100 + doy
    IN  era * 146097 + doe - 719468

IsLeap(y) == (y % 4 = 0 /\ y % 100 # 0) \/ y % 400 = 0

DaysInMonth(y, m) ==
    CASE m \in {1, 3, 5, 7, 8, 10, 12} -> 31
      [] m \in {4, 6, 9, 11} -> 30
      [] m = 2 -> IF IsLeap(y) THEN 29 ELSE 28

\* the year of the day that is day days after 1970-01-01
RECURSIVE YearFrom(_, _)
YearFrom(day, y) ==
    IF day < DaysFromCivil(y, 1, 1) THEN YearFrom(day, y - 1)
    ELSE IF day >= DaysFromCivil(y + 1, 1, 1) THEN YearFrom(day, y + 1)
    ELSE y
YearOfDay(day) == YearFrom(day, 1970 + day \div 365)

\* datetime.weekday() of a day (0 = Monday)
WeekdayOfDay(day) == (day + 3) % 7

\* the last Sunday of month m of year y, and the first one
SundayUpTo(day) == day - ((WeekdayOfDay(day) + 1) % 7)
SundayFrom(day) == day + ((6 - WeekdayOfDay(day)) % 7)
LastSunday(y, m) == SundayUpTo(DaysFromCivil(y, m, DaysInMonth(y, m)))
FirstSunday(y, m) == SundayFrom(DaysFromCivil(y, m, 1))

\* the number of rows of table (sorted) that are at or before the instant p
RECURSIVE RowsUpTo(_, _, _, _)
RowsUpTo(table, p, lo, hi) ==
    IF lo = hi THEN lo
    ELSE LET mid == (lo + hi + 1) \div 2
         IN  IF PairLess(p, <<table[mid][1], table[mid][2]>>)
             THEN RowsUpTo(table, p, lo, mid - 1)
             ELSE RowsUpTo(table, p, mid, hi)

\* the UTC offset a table of transitions gives for the instant p
OffsetOfRow(table, first, row) == IF row = 0 THEN first ELSE table[row][3]
TableOffset(table, first, p) == OffsetOfRow(table, first, RowsUpTo(table, p, 0, Len(table)))

\* the UTC offset of Europe/Rome in force at the instant p: from 1996 on summer
\* time runs from the last Sunday of March 01:00 UTC to the last Sunday of
\* October 01:00 UTC
RomeUtcOffsetIn(y, p) ==
    IF /\ ~PairLess(p, <<LastSunday(y, 3), 3600>>)
       /\ PairLess(p, <<LastSunday(y, 10), 3600>>)
    THEN 7200 ELSE 3600
RomeUtcOffsetAt(p) ==
    IF p[1] >= DaysFromCivil(1996, 1, 1) THEN RomeUtcOffsetIn(YearOfDay(p[1]), p)
    ELSE TableOffset(RomeTransitions, RomeLocalMeanTime, p)

\* the UTC offset of Australia/Sydney in force at the instant p: from 2008 on
\* standard time runs from the first Sunday of April 03:00 daylight time to the
\* first Sunday of October 02:00 standard time, both 16:00 UTC of the Saturday
SydneyUtcOffsetIn(y, p) ==
    IF /\ ~PairLess(p, <<FirstSunday(y, 4) - 1, 57600>>)
       /\ PairLess(p, <<FirstSunday(y, 10) - 1, 57600>>)
    THEN 36000 ELSE 39600
SydneyUtcOffsetAt(p) ==
    IF p[1] >= DaysFromCivil(2008, 1, 1) THEN SydneyUtcOffsetIn(YearOfDay(p[1]), p)
    ELSE TableOffset(SydneyTransitions, SydneyLocalMeanTime, p)

\* the UTC offset of Asia/Tokyo in force at the instant p
TokyoUtcOffsetAt(p) == TableOffset(TokyoTransitions, TokyoLocalMeanTime, p)

\* the local timezones a host may be configured with
HostZones == {"UTC", "Europe/Rome", "Asia/Tokyo"}

\* the UTC offset of the host's zone in force at the instant p
HostUtcOffsetAt(h, p) ==
    CASE h = "UTC" -> 0
      [] h = "Asia/Tokyo" -> TokyoUtcOffsetAt(p)
      [] h = "Europe/Rome" -> RomeUtcOffsetAt(p)
      [] h = "Australia/Sydney" -> SydneyUtcOffsetAt(p)

\* the reading of the host's wall clock at the instant p
LocalAt(h, p) == PairAdd(p, HostUtcOffsetAt(h, p))

\* the fold of datetime.fromtimestamp: the UTC offset went down by -trans in
\* the 24 hours before p, and the clock showed the same reading -trans earlier
FoldAt(h, p, trans) ==
    IF trans < 0 /\ LocalAt(h, PairAdd(p, trans)) = LocalAt(h, p) THEN 1 ELSE 0

\* a naive datetime
Naive(local, us, fold) ==
    [date |-> local[1], time |-> local[2], us |-> us, fold |-> fold]

\* fromtimestamp without the fold: the second occurrence of a repeated wall-clock
\* time is not told from the first
fromtimestamp_at_without_fold(h, p, us) == Naive(LocalAt(h, p), us, 0)

\* datetime.fromtimestamp of the instant p and us microseconds
fromtimestamp_at(h, p, us) ==
    Naive(LocalAt(h, p), us,
          FoldAt(h, p, HostUtcOffsetAt(h, p) - HostUtcOffsetAt(h, PairAdd(p, -86400))))

\* datetime.fromtimestamp(u): the naive local datetime of the host
fromtimestamp(h, u) == fromtimestamp_at(h, PairOf(u), 0)

\* local_to_seconds of CPython once u1 = t - a and the UTC offset b are known
LocalToSecondsB(h, t, fold, u1, b) ==
    IF LocalAt(h, PairAdd(t, -b)) = t THEN PairAdd(t, -b)
    ELSE IF LocalAt(h, u1) = t THEN u1
    ELSE IF (fold = 1) = PairLess(u1, PairAdd(t, -b)) THEN u1
    ELSE PairAdd(t, -b)

\* local_to_seconds of CPython once the UTC offset a at t is known
LocalToSecondsA(h, t, fold, a, u1) ==
    IF LocalAt(h, u1) = t
    THEN IF a = HostUtcOffsetAt(h, PairAdd(u1, IF fold = 1 THEN 86400 ELSE -86400))
         THEN u1
         ELSE LocalToSecondsB(h, t, fold, u1,
                  HostUtcOffsetAt(h, PairAdd(u1, IF fold = 1 THEN 86400 ELSE -86400)))
    ELSE LocalToSecondsB(h, t, fold, u1, HostUtcOffsetAt(h, u1))

\* datetime.timestamp() of a naive datetime, without the microseconds: the
\* instant local_to_seconds finds
timestamp_at(h, dt) ==
    LocalToSecondsA(h, <<dt.date, dt.time>>, dt.fold,
                    HostUtcOffsetAt(h, <<dt.date, dt.time>>),
                    PairAdd(<<dt.date, dt.time>>,
                            -HostUtcOffsetAt(h, <<dt.date, dt.time>>)))

\* the same in epoch seconds
timestamp(h, dt) == timestamp_at(h, dt)[1] * 86400 + timestamp_at(h, dt)[2]

\* datetime.fromtimestamp(u, tz=ZoneInfo("Europe/Rome")).hour
RomeHourAt(p) == PairAdd(p, RomeUtcOffsetAt(p))[2] \div 3600
RomeHour(u) == RomeHourAt(PairOf(u))

\* datetime.date() as days since 1970-01-01, datetime.weekday() (0 = Monday),
\* datetime.time() as [s: seconds since midnight, us: microseconds]
DateOf(dt) == dt.date
WeekdayOf(dt) == WeekdayOfDay(dt.date)
TimeOf(dt) == [s |-> dt.time, us |-> dt.us]

\* the order of two naive datetimes, and of two times of the day
DatetimeLess(a, b) ==
    \/ a.date < b.date
    \/ a.date = b.date /\ a.time < b.time
    \/ a.date = b.date /\ a.time = b.time /\ a.us < b.us
TimeLeq(a, b) == a.s < b.s \/ (a.s = b.s /\ a.us <= b.us)

(***************************************************************************)
(* float(str) and the split of the double into seconds and microseconds     *)
(*                                                                         *)
(* A natural number beyond the integers of the model is the list of its     *)
(* digits in base 2^15, the least significant first and the last one not    *)
(* zero ("Nat"), or the list of its binary digits likewise ("Bits").         *)
(***************************************************************************)
Limb == 32768
LimbBits == 15

\* the largest member of a set of positive indices, 0 for the empty set
LastIndex(S) == IF S = {} THEN 0 ELSE CHOOSE i \in S : \A j \in S : j <= i

\* a without the zeros after its last digit that is not zero
TrimZeros(a) == SubSeq(a, 1, LastIndex({i \in 1..Len(a) : a[i] # 0}))

\* a * m + c for small m and c
RECURSIVE NatMulAdd(_, _, _)
NatMulAdd(a, m, c) ==
    IF a = <<>>
    THEN IF c = 0 THEN <<>> ELSE <<c % Limb>> \o NatMulAdd(<<>>, m, c \div Limb)
    ELSE <<(a[1] * m + c) % Limb>> \o NatMulAdd(Tail(a), m, (a[1] * m + c) \div Limb)

\* <<a \div d, a % d>> for d < 2^15, from <<q, r>> of a without its last digit a1
NatDivStep(rest, a1, d) ==
    << IF rest[1] = <<>> /\ (rest[2] * Limb + a1) \div d = 0 THEN <<>>
       ELSE <<(rest[2] * Limb + a1) \div d>> \o rest[1],
       (rest[2] * Limb + a1) % d >>
RECURSIVE NatDivMod(_, _)
NatDivMod(a, d) ==
    IF a = <<>> THEN <<<<>>, 0>> ELSE NatDivStep(NatDivMod(Tail(a), d), a[1], d)

\* the value of the decimal digits ds, four digits at a time
RECURSIVE NatOfDecimal(_)
NatOfDecimal(ds) ==
    IF Len(ds) <= 4 THEN NatMulAdd(<<>>, 1, DecimalValue(ds))
    ELSE NatMulAdd(NatOfDecimal(SubSeq(ds, 1, Len(ds) - 4)), 10000,
                   DecimalValue(SubSeq(ds, Len(ds) - 3, Len(ds))))

\* the integer a number below 2^31 is
NatLimb(a, i) == IF i <= Len(a) THEN a[i] ELSE 0
NatValue(a) == NatLimb(a, 1) + Limb * NatLimb(a, 2) + Limb * Limb * NatLimb(a, 3)

\* the binary digits of a number
LimbLen(x) == CHOOSE k \in 1..LimbBits : 2^(k - 1) <= x /\ x < 2^k
NatBits(a) ==
    IF a = <<>> THEN <<>>
    ELSE [i \in 1..(LimbBits * (Len(a) - 1) + LimbLen(a[Len(a)])) |->
            (a[(i - 1) \div LimbBits + 1] \div 2^((i - 1) % LimbBits)) % 2]

\* the number of binary digits b
BitAt(b, i) == IF i <= Len(b) THEN b[i] ELSE 0
RECURSIVE BitsSum(_, _, _)
BitsSum(b, from, k) ==
    IF k = 0 THEN 0 ELSE BitAt(b, from + 1) + 2 * BitsSum(b, from + 1, k - 1)
BitsNat(b) ==
    TrimZeros([j \in 1..((Len(b) + LimbBits - 1) \div LimbBits) |->
                  BitsSum(b, LimbBits * (j - 1), LimbBits)])

\* b * 2^k
BitsShift(b, k) == IF b = <<>> THEN <<>> ELSE [i \in 1..k |-> 0] \o b

\* b + 1
BitsIncAt(b, j) ==
    [i \in 1..(IF j > Len(b) THEN j ELSE Len(b)) |->
        IF i < j THEN 0 ELSE IF i = j THEN 1 ELSE b[i]]
BitsInc(b) ==
    BitsIncAt(b, CHOOSE j \in 1..(Len(b) + 1) :
                     /\ j = Len(b) + 1 \/ b[j] = 0
                     /\ \A i \in 1..(j - 1) : b[i] = 1)

\* the order of two numbers
BitsLess(a, b) ==
    \/ Len(a) < Len(b)
    \/ /\ Len(a) = Len(b)
       /\ \E i \in 1..Len(a) : a[i] < b[i] /\ \A j \in (i + 1)..Len(a) : a[j] = b[j]

\* the integer a number below 2^31 is
BitsValue(b) == NatValue(BitsNat(b))

\* x rounded to its n leading digits, half to even, x being followed by further
\* digits that are not all zero when sticky: <<the digits kept, the number of
\* digits dropped>>.  The digits kept are n, or n + 1 when rounding carries
BitsRoundUp(x, drop, sticky) ==
    /\ x[drop] = 1
    /\ sticky \/ x[drop + 1] = 1 \/ \E i \in 1..(drop - 1) : x[i] = 1
BitsRound(x, n, sticky) ==
    IF Len(x) <= n THEN <<x, 0>>
    ELSE IF BitsRoundUp(x, Len(x) - n, sticky)
    THEN <<BitsInc(SubSeq(x, Len(x) - n + 1, Len(x))), Len(x) - n>>
    ELSE <<SubSeq(x, Len(x) - n + 1, Len(x)), Len(x) - n>>

\* x / 10^n: <<the quotient, whether a remainder was left>>
PowersOfTen == <<10, 100, 1000, 10000>>
NatDivStep10(x, d, sticky) == <<NatDivMod(x, d)[1], sticky \/ NatDivMod(x, d)[2] # 0>>
NatDivNext10(rest, d) == NatDivStep10(rest[1], d, rest[2])
RECURSIVE NatDivPow10(_, _)
NatDivPow10(x, n) ==
    IF n = 0 THEN <<x, FALSE>>
    ELSE IF n <= 4 THEN NatDivStep10(x, PowersOfTen[n], FALSE)
    ELSE NatDivNext10(NatDivPow10(x, n - 4), PowersOfTen[4])

\* the binary digits of a double's significand
SignificandBits == 53

\* the double nearest to digits * 10^(-n), as <<m, e>>: m * 2^(-e), m of at most
\* 54 binary digits (e may be negative).  The digits are scaled by 2^k first, k
\* large enough for the quotient to have more digits than the significand
ScaleLimbs(n) == 5 + (4 * n + LimbBits - 1) \div LimbBits
DoubleRounded(rounded, k) == <<rounded[1], k - rounded[2]>>
DoubleQuotient(q, k) == DoubleRounded(BitsRound(NatBits(q[1]), SignificandBits, q[2]), k)
DoubleOfNat(a, n) ==
    DoubleQuotient(NatDivPow10([i \in 1..ScaleLimbs(n) |-> 0] \o a, n),
                   LimbBits * ScaleLimbs(n))
DoubleOf(digits, n) == DoubleOfNat(NatOfDecimal(digits), n)

\* modf of the double m * 2^(-e): <<integer part, fraction digits, e>>
DoubleModf(m, e) ==
    IF e <= 0 THEN <<BitsShift(m, -e), <<>>, 0>>
    ELSE IF e >= Len(m) THEN <<<<>>, m, e>>
    ELSE <<SubSeq(m, e + 1, Len(m)), TrimZeros(SubSeq(m, 1, e)), e>>

\* _PyTime_RoundHalfEven of the double x * 2^(-e), below 2^31
RoundHalfEven(x, e) ==
    IF x = <<>> \/ e <= 0 THEN BitsValue(BitsShift(x, -e))
    ELSE IF e > Len(x) + 1 THEN 0
    ELSE BitsValue(SubSeq(x, e + 1, Len(x)))
         + (IF /\ BitAt(x, e) = 1
               /\ BitAt(x, e + 1) = 1 \/ \E i \in 1..(e - 1) : BitAt(x, i) = 1
            THEN 1 ELSE 0)

\* the fraction f * 2^(-e) times 1e6 (15625 * 2^6) as a double, then rounded half
\* to even: the microseconds of _PyTime_DoubleToDenominator (0 .. 1000000)
MicrosecondsRounded(rounded, e) == RoundHalfEven(rounded[1], e - 6 - rounded[2])
MicrosecondsOf(f, e) ==
    MicrosecondsRounded(BitsRound(NatBits(NatMulAdd(BitsNat(f), 15625, 0)),
                                  SignificandBits, FALSE), e)

\* the parts of a decimal literal: sign, digits before and after the point,
\* exponent, or None when s is not one
Signs == {"+", "-"}

ParseDecimal(s) ==
    LET a  == IF s # <<>> /\ s[1] \in Signs THEN 2 ELSE 1
        b  == DigitRunEnd(s, a)
        c  == IF b <= Len(s) /\ s[b] = "." THEN DigitRunEnd(s, b + 1) ELSE b
        hasExp == c <= Len(s) /\ s[c] \in {"e", "E"}
        d  == IF hasExp /\ c + 1 <= Len(s) /\ s[c + 1] \in Signs THEN c + 2 ELSE c + 1
        e  == IF hasExp THEN DigitRunEnd(s, d) ELSE c
        whole == SubSeq(s, a, b - 1)
        fraction == IF c > b THEN SubSeq(s, b + 1, c - 1) ELSE <<>>
    IN  IF /\ whole \o fraction # <<>>
           /\ hasExp => e > d
           /\ e = Len(s) + 1
        THEN Some([neg |-> s[1] = "-", whole |-> whole, fraction |-> fraction,
                   exp_neg |-> hasExp /\ s[d - 1] = "-",
                   exp |-> IF hasExp THEN SubSeq(s, d, e - 1) ELSE <<>>])
        ELSE None

\* s without its leading zeros
RECURSIVE StripZeros(_)
StripZeros(s) == IF s # <<>> /\ s[1] = "0" THEN StripZeros(Tail(s)) ELSE s

\* the underscores of s stand between two digits each
UnderscoresOk(s) ==
    \A i \in 1..Len(s) :
        s[i] = "_" => /\ i > 1 /\ s[i - 1] \in Digits
                      /\ i < Len(s) /\ s[i + 1] \in Digits

\* s without its underscores
RECURSIVE DropUnderscores(_)
DropUnderscores(s) ==
    IF s = <<>> THEN <<>>
    ELSE IF s[1] = "_" THEN DropUnderscores(Tail(s))
    ELSE <<s[1]>> \o DropUnderscores(Tail(s))

InfNanWords ==
    { <<"i", "n", "f">>, <<"i", "n", "f", "i", "n", "i", "t", "y">>, <<"n", "a", "n">> }

\* the exponent of a literal, kept within -9999 .. 9999
ExponentOf(lit) ==
    LET ds == StripZeros(lit.exp)
        v == IF Len(ds) > 4 THEN 9999 ELSE DecimalValue(ds)
    IN  IF lit.exp_neg THEN -v ELSE v

\* the most decimal places a number that is not below 1e-9 is scaled by, and the
\* power of ten from which on every double is beyond the range of time_t
MaxPowerOfTen == 19

\* float(s) of a decimal literal as a double: zero, inf, or <<m, e>> for
\* m * 2^(-e).  digits are the significant digits and point the power of ten
\* of the first one: the value is 0.digits * 10^point
FloatOfDigits(neg, digits, point) ==
    IF digits = <<>> \/ point < -8 THEN [kind |-> "zero", neg |-> neg]
    ELSE IF point > MaxPowerOfTen + 1 THEN [kind |-> "inf", neg |-> neg]
    ELSE LET n == IF Len(digits) > point THEN Len(digits) - point ELSE 0
             zeros == IF point > Len(digits) THEN point - Len(digits) ELSE 0
             d == DoubleOf(digits \o [i \in 1..zeros |-> "0"], n)
         IN  [kind |-> "finite", neg |-> neg, m |-> d[1], e |-> d[2]]

FloatOfLiteral(lit) ==
    FloatOfDigits(lit.neg, StripZeros(lit.whole \o lit.fraction),
                  Len(lit.whole) + ExponentOf(lit)
                      - (Len(lit.whole \o lit.fraction)
                         - Len(StripZeros(lit.whole \o lit.fraction))))

\* float(s): a double, ValueError, or TypeError for None
float(s) ==
    LET t == Strip(s)
        u == DropUnderscores(t)
        word == Lower(IF u # <<>> /\ u[1] \in Signs THEN Tail(u) ELSE u)
    IN  IF s = PyNone THEN Raise("TypeError")
        ELSE IF ~UnderscoresOk(t) THEN Raise("ValueError")
        ELSE IF word \in InfNanWords
        THEN [kind |-> "value",
              value |-> [kind |-> IF word[1] = "n" THEN "nan" ELSE "inf",
                         neg |-> u[1] = "-"]]
        ELSE IF ParseDecimal(u) = None THEN Raise("ValueError")
        ELSE [kind |-> "value", value |-> FloatOfLiteral(ParseDecimal(u)[1])]

\* the first and the last second time_t and the C library's struct tm hold
TimeTBits == 64
TmYearLimit == NatOfDecimal(<<"6", "7", "7", "6", "8", "0", "3", "6", "1", "9", "1",
                              "6", "7", "6", "8", "0", "0">>)
TmYearFloor == NatOfDecimal(<<"6", "7", "7", "6", "8", "0", "4", "0", "6", "0", "9",
                              "7", "4", "0", "8", "0", "0">>)

\* the days datetime holds: 0001-01-01 .. 9999-12-31
MinDay == DaysFromCivil(1, 1, 1)
MaxDay == DaysFromCivil(9999, 12, 31)

\* the seconds beyond which no second is of a year datetime holds
FarSeconds == 38

\* datetime.fromtimestamp of sec seconds (sign neg, magnitude the digits whole)
\* that are too far for a datetime: the exception raised
FarTimestamp(h, neg, whole) ==
    IF Len(whole) > TimeTBits \/ (Len(whole) = TimeTBits /\ ~neg)
          \/ (Len(whole) = TimeTBits /\ \E i \in 1..(TimeTBits - 1) : whole[i] = 1)
    THEN "OverflowError"
    ELSE IF ~neg /\ ~BitsLess(NatBits(NatMulAdd(BitsNat(whole), 1,
                                                  HostUtcOffsetAt(h, <<MaxDay, 0>>))),
                              NatBits(TmYearLimit))
    THEN "OSError"
    ELSE IF neg /\ BitsLess(NatBits(NatMulAdd(TmYearFloor, 1,
                                               HostUtcOffsetAt(h, <<MinDay, 0>>))),
                            whole)
    THEN "OSError"
    ELSE "ValueError"

\* datetime.fromtimestamp of the instant p and us microseconds, within the
\* years datetime holds or ValueError
NearTimestamp(h, p, us) ==
    IF \/ LocalAt(h, p)[1] > MaxDay
       \/ LocalAt(h, p)[1] < MinDay
       \/ LocalAt(h, PairAdd(p, -86400))[1] < MinDay
    THEN Raise("ValueError")
    ELSE [kind |-> "value", value |-> fromtimestamp_at(h, p, us)]

\* the instant of sec seconds, sec = -whole or whole, whole = <<days, second of
\* the day>>
PairOfSeconds(neg, p) ==
    IF ~neg THEN p
    ELSE IF p[2] = 0 THEN <<-p[1], 0>>
    ELSE <<-p[1] - 1, 86400 - p[2]>>

\* <<a \div 86400, a % 86400>> of a number a below 2^38: 2^30 is 12427 days and
\* 49024 seconds
NatSeconds(a) == NatLimb(a, 3) * 49024 + NatLimb(a, 2) * Limb + NatLimb(a, 1)
NatDays(a) == <<NatLimb(a, 3) * 12427 + NatSeconds(a) \div 86400, NatSeconds(a) % 86400>>

\* datetime.fromtimestamp once _PyTime_DoubleToDenominator has found the
\* seconds (sign neg, magnitude whole) and the microseconds
FromSeconds(h, neg, whole, us) ==
    IF Len(whole) > FarSeconds
    THEN Raise(FarTimestamp(h, neg, whole))
    ELSE NearTimestamp(h, PairOfSeconds(neg, NatDays(BitsNat(whole))), us)

\* _PyTime_DoubleToDenominator: the microseconds usm of the magnitude carry
\* into the seconds, and count back from the next second for a negative double
Timeval(neg, whole, us) == [neg |-> neg, whole |-> whole, us |-> us]
TimevalOfParts(neg, whole, usm) ==
    IF ~neg
    THEN IF usm >= 1000000 THEN Timeval(FALSE, BitsInc(whole), usm - 1000000)
         ELSE Timeval(FALSE, whole, usm)
    ELSE IF usm = 0 THEN Timeval(whole # <<>>, whole, 0)
    ELSE Timeval(TRUE, BitsInc(whole), 1000000 - usm)
TimevalOfModf(neg, parts) ==
    TimevalOfParts(neg, parts[1], MicrosecondsOf(parts[2], parts[3]))

\* _PyTime_ObjectToTimeval of a finite double that is not zero
TimevalOf(x) == TimevalOfModf(x.neg, DoubleModf(x.m, x.e))

FromTimeval(h, tv) == FromSeconds(h, tv.neg, tv.whole, tv.us)

\* datetime.fromtimestamp(x) of a double x on the host h
fromtimestamp_float(h, x) ==
    CASE x.kind = "nan" -> Raise("ValueError")
      [] x.kind = "inf" -> Raise("OverflowError")
      [] x.kind = "zero" -> NearTimestamp(h, <<0, 0>>, 0)
      [] x.kind = "finite" -> FromTimeval(h, TimevalOf(x))

(***************************************************************************)
(* The ts of the raw events of the specifications below: instants (epoch   *)
(* seconds) and the strings they are written as                            *)
(***************************************************************************)
\* str(n) for n >= 0
RECURSIVE Str(_)
Str(n) ==
    IF n < 10 THEN <<CHOOSE c \in Digits : DigitVal[c] = n>>
    ELSE Str(n \div 10) \o <<CHOOSE c \in Digits : DigitVal[c] = n % 10>>

\* the instants of the raw events (epoch seconds)
EventInstants ==
    { 1735689600,      \* Wed 2025-01-01 00:00:00 UTC, 01:00 in Rome
      1736600400,      \* Sat 2025-01-11 13:00:00 UTC, 14:00 in Rome
      1743294600,      \* Sun 2025-03-30 00:30:00 UTC, 01:30 in Rome
      1752786000 }     \* Thu 2025-07-17 21:00:00 UTC, 23:00 in Rome

\* the instants of the raw events (epoch seconds)
ValidityInstants ==
    EventInstants \cup
    { 1735687800,      \* Tue 2024-12-31 23:30 UTC, Wed 2025-01-01 in Rome and Tokyo
      1736638200,      \* Sat 2025-01-11 23:30 UTC, Sun 00:30 in Rome, Sun 08:30 in Tokyo
      1736946000 }     \* Wed 2025-01-15 13:00 UTC, 14:00 in Rome, 22:00 in Tokyo

\* the zones of the hosts: those of HostZones, and one whose own changes of
\* offset fall on 18:00 of Europe/Rome
OncallHostZones == HostZones \cup {"Australia/Sydney"}

\* instants with the Europe/Rome wall-clock hour and minute the tz database
\* gives them
RomeClock ==
    { [u |-> 1736927999, hour |-> 8, minute |-> 59],     \* 2025-01-15 08:59:59
      [u |-> 1736928000, hour |-> 9, minute |-> 0],      \* 2025-01-15 09:00:00
      [u |-> 1736960399, hour |-> 17, minute |-> 59],    \* 2025-01-15 17:59:59
      [u |-> 1736960400, hour |-> 18, minute |-> 0],     \* 2025-01-15 18:00:00
      [u |-> 1736895600, hour |-> 0, minute |-> 0],      \* 2025-01-15 00:00:00
      [u |-> 1736981999, hour |-> 23, minute |-> 59],    \* 2025-01-15 23:59:59
      [u |-> 1736940600, hour |-> 12, minute |-> 30],    \* 2025-01-15 12:30:00
      [u |-> 1752735599, hour |-> 8, minute |-> 59],     \* 2025-07-17 08:59:59
      [u |-> 1752735600, hour |-> 9, minute |-> 0],      \* 2025-07-17 09:00:00
      [u |-> 1752767999, hour |-> 17, minute |-> 59],    \* 2025-07-17 17:59:59
      [u |-> 1752768000, hour |-> 18, minute |-> 0],     \* 2025-07-17 18:00:00
      [u |-> 1752703200, hour |-> 0, minute |-> 0],      \* 2025-07-17 00:00:00
      [u |-> 1752789599, hour |-> 23, minute |-> 59],    \* 2025-07-17 23:59:59
      [u |-> 1752748200, hour |-> 12, minute |-> 30],    \* 2025-07-17 12:30:00
      [u |-> 1743296399, hour |-> 1, minute |-> 59],     \* 2025-03-30 01:59:59
      [u |-> 1743296400, hour |-> 3, minute |-> 0],      \* 2025-03-30 03:00:00
      [u |-> 1743317999, hour |-> 8, minute |-> 59],     \* 2025-03-30 08:59:59
      [u |-> 1743318000, hour |-> 9, minute |-> 0],      \* 2025-03-30 09:00:00
      [u |-> 1743350399, hour |-> 17, minute |-> 59],    \* 2025-03-30 17:59:59
      [u |-> 1743350400, hour |-> 18, minute |-> 0],     \* 2025-03-30 18:00:00
      [u |-> 1761438600, hour |-> 2, minute |-> 30],     \* 2025-10-26 02:30:00
      [u |-> 1761442200, hour |-> 2, minute |-> 30],     \* 2025-10-26 02:30:00 again
      [u |-> 1761465599, hour |-> 8, minute |-> 59],     \* 2025-10-26 08:59:59
      [u |-> 1761465600, hour |-> 9, minute |-> 0],      \* 2025-10-26 09:00:00
      [u |-> 1761497999, hour |-> 17, minute |-> 59],    \* 2025-10-26 17:59:59
      [u |-> 1761498000, hour |-> 18, minute |-> 0] }    \* 2025-10-26 18:00:00

\* instants with the wall clock of Europe/Rome at each, from the tz database:
\* those of RomeClock, and those about the changes of offset of Australia/Sydney
OncallClock ==
    RomeClock \cup
    { [u |-> 1743867000, hour |-> 17, minute |-> 30],    \* 2025-04-05 17:30, Sydney 02:30
      [u |-> 1743868799, hour |-> 17, minute |-> 59],    \* 2025-04-05 17:59:59
      [u |-> 1743868800, hour |-> 18, minute |-> 0],     \* 2025-04-05 18:00:00
      [u |-> 1743870600, hour |-> 18, minute |-> 30],    \* 2025-04-05 18:30, Sydney 02:30 again
      [u |-> 1743922799, hour |-> 8, minute |-> 59],     \* 2025-04-06 08:59:59
      [u |-> 1743922800, hour |-> 9, minute |-> 0],      \* 2025-04-06 09:00:00
      [u |-> 1759591800, hour |-> 17, minute |-> 30],    \* 2025-10-04 17:30, Sydney 01:30
      [u |-> 1759593599, hour |-> 17, minute |-> 59],    \* 2025-10-04 17:59:59
      [u |-> 1759593600, hour |-> 18, minute |-> 0],     \* 2025-10-04 18:00, Sydney 03:00
      [u |-> 1759595400, hour |-> 18, minute |-> 30] }   \* 2025-10-04 18:30, Sydney 03:30

\* ts strings with the Europe/Rome wall-clock hour and minute of the datetime
\* parse_slack_ts reads from them
TsClock ==
    { [ts |-> Str(1736927999) \o <<".", "9", "9", "9", "9", "9", "9">>,
       hour |-> 8, minute |-> 59],                       \* 2025-01-15 08:59:59.999999
      [ts |-> Str(1736960399) \o <<".", "9", "9", "9", "9", "9", "9">>,
       hour |-> 17, minute |-> 59],                      \* 2025-01-15 17:59:59.999999
      [ts |-> <<"3", "2", "5", "1", "6", "7", "5", "1", "5", "9", "9",
                ".", "9", "9", "9", "9", "9", "6">>,
       hour |-> 8, minute |-> 59] }                      \* 3000-06-01 08:59:59.999996

\* a ts that is no number
NotANumber == <<"a", "b", "c">>

\* a ts with microseconds, and one in exponent form between blanks
TsWithMicroseconds == Str(1736600400) \o <<".", "0", "0", "0", "2", "0", "0">>
TsInExponentForm == <<" ", "1", "7", "3", "6", "6", "e", "+", "5", " ">>

\* the ts strings of the raw events
TsStrings ==
    {Str(u) : u \in ValidityInstants \cup {clock.u : clock \in OncallClock}}
    \cup {clock.ts : clock \in TsClock}
    \cup {TsWithMicroseconds, TsInExponentForm, NotANumber, <<"0">>}

\* datetime.fromtimestamp(float(ts_str)) on the host h
FromTimestampOf(h, x) == IF x.kind = "raise" THEN x ELSE fromtimestamp_float(h, x.value)
fromtimestamp_of_float(h, ts_str) == FromTimestampOf(h, float(ts_str))

\* the same for the ts strings of the raw events, computed once
ParsedTsStrings ==
    [h \in OncallHostZones |-> [ts_str \in TsStrings |-> fromtimestamp_of_float(h, ts_str)]]

\* parse_slack_ts on the host h: datetime.fromtimestamp(float(ts_str))
parse_slack_ts(h, ts_str) ==
    IF h \in OncallHostZones /\ ts_str \in TsStrings THEN ParsedTsStrings[h][ts_str]
    ELSE fromtimestamp_of_float(h, ts_str)

(***************************************************************************)
(* naive.timestamp() as a float, and datetime.fromtimestamp(x, tz=Rome)     *)
(***************************************************************************)
\* the wall clock of the host reads a year datetime holds at the instant p
YearInRange(h, p) == LocalAt(h, p)[1] >= MinDay /\ LocalAt(h, p)[1] <= MaxDay

\* the instants local_to_seconds reads the wall clock at, for the wall-clock time
\* t: t itself, u1 = t - a, a day from u1 when u1 reads t, and t - b
LocalToSecondsProbes(h, t, fold, a, u1) ==
    {t, u1}
    \cup (IF LocalAt(h, u1) = t
          THEN {PairAdd(u1, IF fold = 1 THEN 86400 ELSE -86400)}
               \cup (IF a = HostUtcOffsetAt(h, PairAdd(u1, IF fold = 1 THEN 86400 ELSE -86400))
                     THEN {}
                     ELSE {PairAdd(t, -HostUtcOffsetAt(h,
                               PairAdd(u1, IF fold = 1 THEN 86400 ELSE -86400)))})
          ELSE {PairAdd(t, -HostUtcOffsetAt(h, u1))})

\* naive.timestamp() raises ValueError when one of these readings is of a year
\* datetime does not hold
timestamp_raises(h, dt) ==
    \E p \in LocalToSecondsProbes(h, <<dt.date, dt.time>>, dt.fold,
                                  HostUtcOffsetAt(h, <<dt.date, dt.time>>),
                                  PairAdd(<<dt.date, dt.time>>,
                                          -HostUtcOffsetAt(h, <<dt.date, dt.time>>))) :
        ~YearInRange(h, p)

\* days * 86400 + seconds as a number
NatOfSeconds(days, seconds) == NatMulAdd(NatMulAdd(NatMulAdd(<<>>, 1, days), 675, 0), 128, seconds)

\* b followed by zeros up to n digits
BitsPad(b, n) == [i \in 1..n |-> BitAt(b, i)]

\* 2^n - b for 0 < b < 2^n
BitsComplement(b, n) == TrimZeros(BitsPad(BitsInc([i \in 1..n |-> 1 - BitAt(b, i)]), n))

\* the double nearest to whole + fraction, fraction = <<m, e>> below 1
DoubleSum(neg, whole, fraction) ==
    DoubleRounded(BitsRound(TrimZeros(BitsPad(fraction[1], fraction[2]) \o NatBits(whole)),
                            SignificandBits, FALSE), fraction[2])
DoubleDifference(whole_less_one, fraction) ==
    DoubleRounded(BitsRound(TrimZeros(BitsPad(BitsComplement(fraction[1], fraction[2]),
                                              fraction[2]) \o NatBits(whole_less_one)),
                            SignificandBits, FALSE), fraction[2])

\* a double of the sign neg and the magnitude <<m, e>>
Finite(neg, d) ==
    IF d[1] = <<>> THEN [kind |-> "zero", neg |-> neg]
    ELSE [kind |-> "finite", neg |-> neg, m |-> d[1], e |-> d[2]]

\* seconds + microsecond / 1e6 in doubles, the seconds being those of the
\* instant p: the float naive.timestamp() returns
TimestampFloat(p, us) ==
    IF us = 0
    THEN IF p[1] >= 0 THEN Finite(FALSE, <<NatBits(NatOfSeconds(p[1], p[2])), 0>>)
         ELSE Finite(TRUE, <<BitsInc(NatBits(NatOfSeconds(-p[1] - 1, 86399 - p[2]))), 0>>)
    ELSE IF p[1] >= 0
    THEN Finite(FALSE, DoubleSum(FALSE, NatOfSeconds(p[1], p[2]),
                                 DoubleOfNat(NatMulAdd(<<>>, 1, us), 6)))
    ELSE Finite(TRUE, DoubleDifference(NatOfSeconds(-p[1] - 1, 86399 - p[2]),
                                       DoubleOfNat(NatMulAdd(<<>>, 1, us), 6)))

\* the instant of a timeval
TimevalInstant(tv) == PairOfSeconds(tv.neg, NatDays(BitsNat(tv.whole)))

\* datetime.fromtimestamp(x, tz=ZoneInfo("Europe/Rome")).hour once the instant
\* p is known: ValueError when p is not of a year datetime holds, OverflowError
\* when the reading of the clock of Rome is not
RomeHourOfInstant(p) ==
    IF p[1] < MinDay \/ p[1] > MaxDay THEN Raise("ValueError")
    ELSE IF PairAdd(p, RomeUtcOffsetAt(p))[1] < MinDay
            \/ PairAdd(p, RomeUtcOffsetAt(p))[1] > MaxDay
    THEN Raise("OverflowError")
    ELSE Value(PairAdd(p, RomeUtcOffsetAt(p))[2] \div 3600)

\* datetime.fromtimestamp(x, tz=ZoneInfo("Europe/Rome")).hour of a double x
RomeHourOfFloat(x) ==
    IF x.kind = "zero" THEN RomeHourOfInstant(<<0, 0>>)
    ELSE RomeHourOfInstant(TimevalInstant(TimevalOf(x)))

\* datetime.fromtimestamp(dt.timestamp(), tz=ZoneInfo("Europe/Rome")).hour of a
\* naive datetime dt of the host h
RomeHourOfNaive(h, dt) ==
    IF timestamp_raises(h, dt) THEN Raise("ValueError")
    ELSE RomeHourOfFloat(TimestampFloat(timestamp_at(h, dt), dt.us))

(***************************************************************************)
(* datetime.strptime.  A format is the list of its items: the letter of a   *)
(* directive ("d" for %d), " " for a run of whitespace, any other character *)
(* for itself.  _strptime turns the format into a regular expression: each  *)
(* directive into the alternatives below, tried in this order, a blank into *)
(* \s+.  The expression is matched at the start of the string, and the      *)
(* match has to end where the string ends.  Digits are the ASCII ones.      *)
(***************************************************************************)
NonZeroDigits == Digits \ {"0"}

\* the alternatives of a directive, each one a list of sets of characters
Directive ==
    [d |-> << <<{"3"}, {"0", "1"}>>, <<{"1", "2"}, Digits>>, <<{"0"}, NonZeroDigits>>,
              <<NonZeroDigits>>, <<{" "}, NonZeroDigits>> >>,
     m |-> << <<{"1"}, {"0", "1", "2"}>>, <<{"0"}, NonZeroDigits>>, <<NonZeroDigits>> >>,
     y |-> << <<Digits, Digits>> >>,
     Y |-> << <<Digits, Digits, Digits, Digits>> >>,
     H |-> << <<{"2"}, {"0", "1", "2", "3"}>>, <<{"0", "1"}, Digits>>, <<Digits>> >>,
     M |-> << <<{"0", "1", "2", "3", "4", "5"}, Digits>>, <<Digits>> >>,
     S |-> << <<{"6"}, {"0", "1"}>>, <<{"0", "1", "2", "3", "4", "5"}, Digits>>,
              <<Digits>> >>]

\* the formats of the program
FormatDMY == <<"d", "-", "m", "-", "y">>
FormatDate == <<"Y", "-", "m", "-", "d">>
FormatDateHM == FormatDate \o <<" ", "H", ":", "M">>
FormatDateHMS == FormatDateHM \o <<":", "S">>
FormatHM == <<"H", ":", "M">>

\* the characters of s from i on fit the alternative alt
AltMatches(alt, s, i) ==
    /\ i + Len(alt) - 1 <= Len(s)
    /\ \A k \in 1..Len(alt) : s[i + k - 1] \in alt[k]

\* the texts an item of a format may take at i, the one tried first first: the
\* alternatives of a directive that fit, the runs of whitespace from the longest
\* to the shortest, the character itself
ItemLengths(item, s, i) ==
    IF item \in DOMAIN Directive
    THEN [j \in 1..Len(Directive[item]) |->
             IF AltMatches(Directive[item][j], s, i) THEN Len(Directive[item][j]) ELSE 0]
    ELSE IF item = " "
    THEN [j \in 1..(SpaceRunEnd(s, i) - i) |-> SpaceRunEnd(s, i) - i - j + 1]
    ELSE IF i <= Len(s) /\ LowerChar(s[i]) = LowerChar(item) THEN <<1>> ELSE <<>>

\* the match of the items of fmt from the k-th on with s from i on: the list of
\* the texts the items took, or None.  The first text with which the rest of the
\* format matches is taken, wherever that match ends
RECURSIVE StrptimeMatch(_, _, _, _)
StrptimeFirst(fmt, k, s, i, lengths) ==
    LastIndex({0} \cup
              {Len(lengths) + 1 - j : j \in
                  {j \in 1..Len(lengths) :
                      /\ lengths[j] > 0
                      /\ StrptimeMatch(fmt, k + 1, s, i + lengths[j]) # None}})
StrptimeTake(fmt, k, s, i, lengths, first) ==
    IF first = 0 THEN None
    ELSE Some(<<SubSeq(s, i, i + lengths[Len(lengths) + 1 - first] - 1)>>
              \o StrptimeMatch(fmt, k + 1, s, i + lengths[Len(lengths) + 1 - first])[1])
StrptimeItem(fmt, k, s, i, lengths) ==
    StrptimeTake(fmt, k, s, i, lengths, StrptimeFirst(fmt, k, s, i, lengths))
StrptimeMatch(fmt, k, s, i) ==
    IF k > Len(fmt) THEN Some(<<>>)
    ELSE StrptimeItem(fmt, k, s, i, ItemLengths(fmt[k], s, i))

\* the sum of the lengths of texts
RECURSIVE TotalLen(_)
TotalLen(texts) == IF texts = <<>> THEN 0 ELSE Len(texts[1]) + TotalLen(Tail(texts))

\* the number directive took in the match texts of fmt, or absent
FieldOf(fmt, texts, directive, absent) ==
    IF \E k \in 1..Len(fmt) : fmt[k] = directive
    THEN DecimalValue(Strip(texts[CHOOSE k \in 1..Len(fmt) : fmt[k] = directive]))
    ELSE absent

\* %y: 00..68 are 2000..2068, 69..99 are 1969..1999
YearOf(fmt, texts) ==
    IF \E k \in 1..Len(fmt) : fmt[k] = "y"
    THEN IF FieldOf(fmt, texts, "y", 0) <= 68 THEN 2000 + FieldOf(fmt, texts, "y", 0)
         ELSE 1900 + FieldOf(fmt, texts, "y", 0)
    ELSE FieldOf(fmt, texts, "Y", 1900)

\* datetime(year, month, day, hour, minute, second), or ValueError
datetime(year, month, day, hour, minute, second) ==
    IF /\ year \in 1..9999
       /\ day <= DaysInMonth(year, month)
       /\ second <= 59
    THEN [kind |-> "value",
          value |-> [date |-> DaysFromCivil(year, month, day),
                     time |-> hour * 3600 + minute * 60 + second, us |-> 0, fold |-> 0]]
    ELSE Raise("ValueError")

StrptimeFields(fmt, texts) ==
    datetime(YearOf(fmt, texts), FieldOf(fmt, texts, "m", 1), FieldOf(fmt, texts, "d", 1),
             FieldOf(fmt, texts, "H", 0), FieldOf(fmt, texts, "M", 0),
             FieldOf(fmt, texts, "S", 0))

StrptimeMatched(fmt, s, texts) ==
    IF texts = None \/ TotalLen(texts[1]) # Len(s)
    THEN Raise("ValueError")
    ELSE StrptimeFields(fmt, texts[1])

\* _strptime_datetime(cls, s, fmt): a naive datetime, ValueError, or TypeError
\* when s is not a str
strptime_datetime(s, fmt) ==
    IF s = PyNone THEN Raise("TypeError")
    ELSE StrptimeMatched(fmt, s, StrptimeMatch(fmt, 1, s, 1))

(***************************************************************************)
(* The strings the time constraints of the specifications below are        *)
(* written with                                                            *)
(***************************************************************************)
\* values of the start and end keys of an hours entry
T2200 == <<"2", "2", ":", "0", "0">>
T0200 == <<"0", "2", ":", "0", "0">>
T0900 == <<"0", "9", ":", "0", "0">>
T1700 == <<"1", "7", ":", "0", "0">>
T9_5 == <<"9", ":", "5">>
T2400 == <<"2", "4", ":", "0", "0">>
T0100NoColon == <<"0", "1", "0", "0">>
T10pm == <<"1", "0", "p", "m">>
TimeStrings == {T2200, T0200, T0900, T1700, T9_5, T2400, T0100NoColon, T10pm, PyNone}

\* values of the start and end keys of a periods entry
D20250101 == <<"2", "0", "2", "5", "-", "0", "1", "-", "0", "1">>
D20250131 == <<"2", "0", "2", "5", "-", "0", "1", "-", "3", "1">>
D20250131Noon == <<"2", "0", "2", "5", "-", "0", "1", "-", "3", "1", " ", "1", "2", ":", "0", "0", ":", "0", "0">>
D20250115Morning == <<"2", "0", "2", "5", "-", "0", "1", "-", "1", "5", " ", "0", "8", ":", "3", "0">>
D20250201 == <<"2", "0", "2", "5", "-", "0", "2", "-", "0", "1">>
D20250230 == <<"2", "0", "2", "5", "-", "0", "2", "-", "3", "0">>
DSlashes == <<"0", "1", "/", "0", "2", "/", "2", "0", "2", "5">>
D20250101SpaceDay == <<"2", "0", "2", "5", "-", "0", "1", "-", " ", "1">>
D20250115Tab == <<"2", "0", "2", "5", "-", "0", "1", "-", "1", "5", "\t", "8", ":", "3", "0">>
DateStringsOfPeriods ==
    {<<>>, PyNone, D20250101, D20250131, D20250131Noon, D20250115Morning, D20250201,
     D20250230, DSlashes, D20250101SpaceDay, D20250115Tab}

\* strptime_datetime for those, computed once
ParsedTimes == [s \in TimeStrings |-> strptime_datetime(s, FormatHM)]
ParsedDates ==
    [fmt \in {FormatDateHMS, FormatDateHM, FormatDate} |->
        [s \in DateStringsOfPeriods |-> strptime_datetime(s, fmt)]]

\* datetime.strptime(s, fmt)
strptime(s, fmt) ==
    IF fmt = FormatHM /\ s \in TimeStrings THEN ParsedTimes[s]
    ELSE IF fmt \in {FormatDateHMS, FormatDateHM, FormatDate} /\ s \in DateStringsOfPeriods
    THEN ParsedDates[fmt][s]
    ELSE strptime_datetime(s, fmt)

(***************************************************************************)
(* pytz: ROME_TZ.localize(naive) with is_dst=False                          *)
(***************************************************************************)
\* the transitions pytz knows of Europe/Rome end in October 2037: standard time
\* stays in force after them
PytzRomeUtcOffsetAt(p) ==
    IF p[1] >= DaysFromCivil(2038, 1, 1) THEN 3600 ELSE RomeUtcOffsetAt(p)

\* the UTC offsets localize considers for the wall-clock time w: those in force
\* a day before and a day after w (read as UTC) under which w is the reading of
\* the wall clock at w minus the offset
LocalizeCandidates(w) ==
    {o \in {PytzRomeUtcOffsetAt(PairAdd(w, -86400)), PytzRomeUtcOffsetAt(PairAdd(w, 86400))} :
        PytzRomeUtcOffsetAt(PairAdd(w, -o)) = o}

\* the offsets of daylight saving time of Europe/Rome
RomeDstOffsets == {7200}

\* the smallest of a set of offsets: the latest of the instants they give
MinOffset(S) == CHOOSE o \in S : \A q \in S : o <= q

\* the UTC offset of the datetime localize returns: the only candidate; for a
\* wall-clock time that never was, the offset of six hours earlier; for one that
\* was twice, the candidate of standard time
RECURSIVE LocalizeOffsetAt(_)
LocalizeOffsetAt(w) ==
    IF LocalizeCandidates(w) = {} THEN LocalizeOffsetAt(PairAdd(w, -21600))
    ELSE IF LocalizeCandidates(w) \ RomeDstOffsets = {}
    THEN MinOffset(LocalizeCandidates(w))
    ELSE MinOffset(LocalizeCandidates(w) \ RomeDstOffsets)

(***************************************************************************)
(* config/time_constraint.py                                               *)
(***************************************************************************)
\* DateTimePeriod.contains with every bound compared as a datetime
DateTimePeriod_contains_by_instant(p, dt) ==
    /\ p.start = None \/ ~DatetimeLess(dt, p.start[1])
    /\ p.end = None \/ ~DatetimeLess(p.end[1], dt)

\* DateTimePeriod.contains: start and end are None or Some(naive datetime)
DateTimePeriod_contains(p, dt) ==
    /\ \/ p.start = None
       \/ IF p.start_is_date_only
          THEN ~(DateOf(dt) < DateOf(p.start[1]))
          ELSE ~DatetimeLess(dt, p.start[1])
    /\ \/ p.end = None
       \/ IF p.end_is_date_only
          THEN ~(DateOf(dt) > DateOf(p.end[1]))
          ELSE ~DatetimeLess(p.end[1], dt)

\* TimeRange.contains without the branch for ranges that cross midnight
TimeRange_contains_same_day(r, t) == TimeLeq(r.start, t) /\ TimeLeq(t, r.end)

\* TimeRange.contains: start, end and t are times of the day
TimeRange_contains(r, t) ==
    IF TimeLeq(r.start, r.end)
    THEN TimeLeq(r.start, t) /\ TimeLeq(t, r.end)
    ELSE TimeLeq(r.start, t) \/ TimeLeq(t, r.end)

\* TimeConstraint.is_empty
TimeConstraint_is_empty(c) ==
    c.periods = <<>> /\ c.weekdays = <<>> /\ c.hours = <<>>

\* TimeConstraint.matches with one matching kind being enough
TimeConstraint_matches_any_kind(c, dt) ==
    IF TimeConstraint_is_empty(c) THEN TRUE
    ELSE \/ \E i \in 1..Len(c.periods) : DateTimePeriod_contains(c.periods[i], dt)
         \/ \E i \in 1..Len(c.weekdays) : c.weekdays[i] = WeekdayOf(dt)
         \/ \E i \in 1..Len(c.hours) : TimeRange_contains(c.hours[i], TimeOf(dt))

\* TimeConstraint.matches
TimeConstraint_matches(c, dt) ==
    IF TimeConstraint_is_empty(c) THEN TRUE
    ELSE /\ c.periods # <<>> =>
               \E i \in 1..Len(c.periods) : DateTimePeriod_contains(c.periods[i], dt)
         /\ c.weekdays # <<>> =>
               \E i \in 1..Len(c.weekdays) : c.weekdays[i] = WeekdayOf(dt)
         /\ c.hours # <<>> =>
               \E i \in 1..Len(c.hours) : TimeRange_contains(c.hours[i], TimeOf(dt))

(***************************************************************************)
(* config/ignore_rule.py                                                   *)
(***************************************************************************)
\* IgnoreRule.applies_to_environment
applies_to_environment(rule, environment) ==
    rule.environments = <<>>
    \/ \E i \in 1..Len(rule.environments) : rule.environments[i] = environment

\* IgnoreRule.is_valid_at
is_valid_at(rule, dt) ==
    /\ (rule.validity # None /\ ~TimeConstraint_is_empty(rule.validity[1]))
           => TimeConstraint_matches(rule.validity[1], dt)
    /\ (rule.exclusions # None /\ ~TimeConstraint_is_empty(rule.exclusions[1]))
           => ~TimeConstraint_matches(rule.exclusions[1], dt)

\* the placeholder "[#env#]"
EnvPlaceholder == <<"[", "#", "e", "n", "v", "#", "]">>

\* IgnoreRule.expand_environment_placeholders
expand_environment_placeholders(rule, environment) ==
    StrReplace(rule.pattern, EnvPlaceholder, environment)

(***************************************************************************)
(* config/ignore_rule_parser.py                                            *)
(***************************************************************************)
\* the literals of  #(\d+): ALARM: "([^"]+)" in (.+)
AlarmLit == <<":", " ", "A", "L", "A", "R", "M", ":", " ", "\"">>
InLit == <<"\"", " ", "i", "n", " ">>

\* the regular expression matched at index i of s: the three groups, or None
MatchOpeningAt(s, i) ==
    LET j  == DigitRunEnd(s, i + 1)
        n0 == j + Len(AlarmLit)
        q  == IndexFrom(s, n0, "\"")
        l0 == q + Len(InLit)
        le == IndexFrom(s, l0, "\n")
    IN  IF /\ i <= Len(s) /\ s[i] = "#"
           /\ j > i + 1
           /\ StartsWithAt(s, j, AlarmLit)
           /\ q > n0
           /\ StartsWithAt(s, q, InLit)
           /\ le > l0
        THEN Some([id |-> SubSeq(s, i + 1, j - 1),
                   name |-> SubSeq(s, n0, q - 1),
                   location |-> SubSeq(s, l0, le - 1)])
        ELSE None

\* re.search(OPENING_PATTERN, s): the leftmost match, or None
SearchOpening(s) ==
    LET hits == {i \in 1..Len(s) : MatchOpeningAt(s, i) # None}
    IN  IF hits = {} THEN None
        ELSE MatchOpeningAt(s, CHOOSE i \in hits : \A k \in hits : i <= k)

\* IgnoreRuleParser._contains_pattern
contains_pattern(pattern, text) ==
    /\ Truthy(text)
    /\ Truthy(pattern)
    /\ IsSubstring(Lower(pattern), Lower(text))

\* IgnoreRuleParser._check_all_fields
check_all_fields(pattern, message) ==
    \/ contains_pattern(pattern, Get(message, "text", <<>>))
    \/ \E i \in 1..Len(Get(message, "attachments", <<>>)) :
          \/ contains_pattern(pattern, Get(message.attachments[i], "title", <<>>))
          \/ contains_pattern(pattern, Get(message.attachments[i], "fallback", <<>>))
          \/ contains_pattern(pattern, Get(message.attachments[i], "text", <<>>))
    \/ \E i \in 1..Len(Get(message, "files", <<>>)) :
          \/ contains_pattern(pattern, Get(message.files[i], "name", <<>>))
          \/ contains_pattern(pattern, Get(message.files[i], "plain_text", <<>>))

\* IgnoreRuleParser._extract_alarm_name_from_title
extract_alarm_name_from_title(title) ==
    IF ~Truthy(title) THEN <<>>
    ELSE IF SearchOpening(title) # None THEN SearchOpening(title)[1].name
    ELSE <<>>

\* the non-empty strings of seq, in order
RECURSIVE SelectNonEmpty(_)
SelectNonEmpty(seq) ==
    IF seq = <<>> THEN <<>>
    ELSE IF Head(seq) # <<>> THEN <<Head(seq)>> \o SelectNonEmpty(Tail(seq))
    ELSE SelectNonEmpty(Tail(seq))

\* IgnoreRuleParser._extract_values_by_path
extract_values_by_path(path, message) ==
    IF path = <<"text">> THEN <<Get(message, "text", <<>>)>>
    ELSE IF path[1] = "attachments"
    THEN IF Len(path) = 3 /\ path[2] = "title" /\ path[3] = "alarm_name"
         THEN SelectNonEmpty([i \in 1..Len(Get(message, "attachments", <<>>)) |->
                  extract_alarm_name_from_title(Get(message.attachments[i], "title", <<>>))])
         ELSE IF Len(path) = 2
         THEN [i \in 1..Len(Get(message, "attachments", <<>>)) |->
                  Get(message.attachments[i], path[2], <<>>)]
         ELSE <<>>
    ELSE IF path[1] = "files"
    THEN IF Len(path) = 2
         THEN [i \in 1..Len(Get(message, "files", <<>>)) |->
                  Get(message.files[i], path[2], <<>>)]
         ELSE <<>>
    ELSE <<>>

\* _check_specific_path looking in every field, whatever the path
check_specific_path_any_field(pattern, path, message) ==
    check_all_fields(pattern, message)

\* IgnoreRuleParser._check_specific_path
check_specific_path(pattern, path, message) ==
    LET values == extract_values_by_path(path, message)
    IN  \E i \in 1..Len(values) : contains_pattern(pattern, values[i])

\* IgnoreRuleParser._rule_matches_message; environment is None when the caller
\* leaves the parameter at its default
rule_matches_message(rule, message, environment) ==
    LET truthy == environment # None
        pattern == IF truthy THEN expand_environment_placeholders(rule, environment)
                   ELSE rule.pattern
    IN  IF truthy /\ ~applies_to_environment(rule, environment) THEN FALSE
        ELSE IF rule.path = <<"*">> THEN check_all_fields(pattern, message)
        ELSE check_specific_path(pattern, rule.path, message)

\* should_ignore_message taking a rule only when the rule is valid at the time of
\* the message, which it reads from 'ts' on the clock of the host
should_ignore_message_when_valid_on_host(rules, message, environment) ==
    \E i \in 1..Len(rules) :
        /\ rule_matches_message(rules[i], message, environment)
        /\ Truthy(Get(message, "ts", PyNone)) =>
               is_valid_at(rules[i], parse_slack_ts(host, message.ts).value)

\* IgnoreRuleParser.should_ignore_message(self, message, environment=None)
should_ignore_message(rules, message, environment) ==
    \E i \in 1..Len(rules) : rule_matches_message(rules[i], message, environment)

\* the reason a rule reports
RuleReason(rule) ==
    IF Truthy(rule.reason)
    THEN [kind |-> "custom", text |-> rule.reason]
    ELSE IF rule.path = <<"*">>
    THEN [kind |-> "wildcard", pattern |-> rule.pattern]
    ELSE [kind |-> "path", pattern |-> rule.pattern, path |-> rule.path]

UnknownReason == [kind |-> "Unknown reason"]

\* IgnoreRuleParser.get_ignore_reason(self, message)
get_ignore_reason(rules, message) ==
    LET hits == {i \in 1..Len(rules) : rule_matches_message(rules[i], message, None)}
    IN  IF hits = {} THEN UnknownReason
        ELSE RuleReason(rules[CHOOSE i \in hits : \A k \in hits : i <= k])

(***************************************************************************)
(* config/oncall_config.py                                                 *)
(***************************************************************************)
OFFICE_HOURS_START == 9
OFFICE_HOURS_END == 18

\* italy_time.hour of is_oncall_in_reperibilita on the host h, or the exception
\* the conversion raises: a naive datetime goes through timestamp() and
\* fromtimestamp(, tz=ITALY_TIMEZONE), an aware one [instant, tzinfo] through
\* astimezone
italy_time_hour(h, dt) ==
    IF "tzinfo" \notin DOMAIN dt THEN RomeHourOfNaive(h, dt)
    ELSE Value(RomeHour(dt.instant))

\* is_oncall_in_reperibilita with business hours closed at both ends
OutsideOfficeHoursClosed(hour) ==
    IF hour.kind = "raise" THEN hour
    ELSE Value(hour.value < OFFICE_HOURS_START \/ hour.value > OFFICE_HOURS_END)
is_oncall_in_reperibilita_closed(h, alarm_timestamp) ==
    IF alarm_timestamp = None THEN Value(FALSE)
    ELSE OutsideOfficeHoursClosed(italy_time_hour(h, alarm_timestamp[1]))

\* is_oncall_in_reperibilita on the host h; alarm_timestamp is None, Some(naive
\* datetime) or Some(aware datetime [instant, tzinfo])
\* the comparison of the hour read in Rome, or the exception of the conversion
OutsideOfficeHours(hour) ==
    IF hour.kind = "raise" THEN hour
    ELSE Value(hour.value < OFFICE_HOURS_START \/ hour.value >= OFFICE_HOURS_END)

is_oncall_in_reperibilita(h, alarm_timestamp) ==
    IF alarm_timestamp = None THEN Value(FALSE)
    ELSE OutsideOfficeHours(italy_time_hour(h, alarm_timestamp[1]))

\* OnCallConfiguration.is_oncall_alarm
is_oncall_alarm(oncall_config, alarm_name) ==
    /\ Truthy(alarm_name)
    /\ Truthy(oncall_config.pattern)
    /\ RegexSearch(oncall_config.pattern, alarm_name)

(***************************************************************************)
(* alarm_type.py                                                           *)
(***************************************************************************)
prod == <<"p", "r", "o", "d">>
uat == <<"u", "a", "t">>
test == <<"t", "e", "s", "t">>
SEND == <<"S", "E", "N", "D">>
INTEROP == <<"I", "N", "T", "E", "R", "O", "P">>

\* AlarmType.matches_alarm_name
matches_alarm_name(alarm_type, alarm_name) ==
    /\ Truthy(alarm_name)
    /\ Truthy(alarm_type.pattern)
    /\ RegexSearch(alarm_type.pattern, alarm_name)

\* AlarmType.is_oncall
is_oncall(alarm_type) == alarm_type.category = "oncall"

\* ProductConfig.get_slack_channel_id: environments maps the configured
\* environment names to their channel ids
get_slack_channel_id(product_config, env_name) ==
    IF env_name \in DOMAIN product_config.environments
    THEN product_config.environments[env_name]
    ELSE None

\* AlarmType.__post_init__ and OnCallConfiguration.__init__:
\* re.compile(pattern, re.IGNORECASE) if pattern else None
compiled_pattern(pattern) ==
    IF Truthy(pattern) THEN re_compile(pattern) ELSE Value(None)

\* f"{oncall_pattern}": None is formatted as the four characters of 'None'
FormatPattern(pattern) ==
    IF pattern = PyNone THEN <<"N", "o", "n", "e">> ELSE pattern

\* build_alarm_types: the list of alarm types, or the exception re.compile
\* raises for the pattern of one of them; the normal type is built first
build_alarm_types(product_config, product_name, environment) ==
    LET channel_id == get_slack_channel_id(product_config, environment)
        oncall == product_config.oncall_config
        normal_pattern ==
            IF oncall # None
            THEN <<"^", "(", "?", "!">> \o FormatPattern(oncall[1].pattern) \o <<")">>
            ELSE <<".", "*">>
        normal_alarm ==
            [product |-> product_name, environment |-> environment,
             category |-> "normal", channel_id |-> channel_id,
             pattern |-> normal_pattern]
        oncall_alarm ==
            [product |-> product_name, environment |-> environment,
             category |-> "oncall", channel_id |-> oncall[1].channel_id,
             pattern |-> oncall[1].pattern]
        normal_compiled == compiled_pattern(normal_pattern)
        oncall_compiled == compiled_pattern(oncall[1].pattern)
    IN  IF channel_id = None THEN Value(<<>>)
        ELSE IF normal_compiled.kind # "value" THEN normal_compiled
        ELSE IF environment = prod /\ oncall # None
        THEN IF oncall_compiled.kind # "value" THEN oncall_compiled
             ELSE Value(<<normal_alarm, oncall_alarm>>)
        ELSE Value(<<normal_alarm>>)

(***************************************************************************)
(* slack/send_parsers.py, slack/interop_parsers.py, slack/parser_provider.py*)
(***************************************************************************)
\* str.upper()
Upper(s) ==
    [i \in 1..Len(s) |->
        IF \E u \in DOMAIN LowerMap : LowerMap[u] = s[i]
        THEN CHOOSE u \in DOMAIN LowerMap : LowerMap[u] = s[i]
        ELSE s[i]]

\* ts = message.get("ts"); timestamp = parse_slack_ts(ts) if ts else None, on
\* the host h: the timestamp, or the exception parse_slack_ts raises
SomeParsed(parsed) == IF parsed.kind = "raise" THEN parsed ELSE Value(Some(parsed.value))
TimestampOfTs(h, ts) == IF Truthy(ts) THEN SomeParsed(parse_slack_ts(h, ts)) ELSE Value(None)
MessageTimestamp(h, message) == TimestampOfTs(h, Get(message, "ts", PyNone))

\* the record both extractors return for a match m = [id, name, location];
\* parsed_ts is what MessageTimestamp gives for the message
AlarmInfo(oncall_config, m, full_text, parsed_ts) ==
    IF parsed_ts.kind = "raise" THEN parsed_ts
    ELSE Value(Some([id |-> m.id, name |-> m.name, location |-> m.location,
                     timestamp |-> parsed_ts.value,
                     full_text |-> full_text,
                     is_oncall |-> oncall_config # None
                                   /\ is_oncall_alarm(oncall_config[1], m.name)]))

NoAlarm == [kind |-> "value", value |-> None]

\* the record of the first of the two matches, of the title and of the fallback,
\* that is not None; re.search raises TypeError for a text that is None, and
\* the fallback is searched once the title did not match
AlarmInfoOfMatches(oncall_config, title, title_match, fallback, fallback_match, parsed_ts) ==
    IF title = PyNone THEN Raise("TypeError")
    ELSE IF title_match # None
    THEN AlarmInfo(oncall_config, title_match[1], fallback, parsed_ts)
    ELSE IF fallback = PyNone THEN Raise("TypeError")
    ELSE IF fallback_match # None
    THEN AlarmInfo(oncall_config, fallback_match[1], fallback, parsed_ts)
    ELSE NoAlarm

\* SendProdParser.extract_alarm_info (SendUatParser delegates to it); parsed_ts
\* is what MessageTimestamp gives for the message, read once a pattern matched
SendProdParser_extract_alarm_info(oncall_config, message, parsed_ts) ==
    IF Get(message, "attachments", <<>>) = <<>> THEN NoAlarm
    ELSE AlarmInfoOfMatches(oncall_config,
             Get(message.attachments[1], "title", <<>>),
             SearchOpening(Get(message.attachments[1], "title", <<>>)),
             Get(message.attachments[1], "fallback", <<>>),
             SearchOpening(Get(message.attachments[1], "fallback", <<>>)), parsed_ts)

\* re.search(r'"([^"]+)"', s): group 1 of the leftmost match, or None
SearchQuoted(s) ==
    LET ok(i) == /\ s[i] = "\""
                 /\ IndexFrom(s, i + 1, "\"") > i + 1
                 /\ IndexFrom(s, i + 1, "\"") <= Len(s)
        hits == {i \in 1..Len(s) : ok(i)}
        first == CHOOSE i \in hits : \A k \in hits : i <= k
    IN  IF hits = {} THEN None
        ELSE Some(SubSeq(s, first + 1, IndexFrom(s, first + 1, "\"") - 1))

\* re.search(r'in\s+(.+)', s): group 1 of the leftmost match, or None.  \s+ gives
\* back whitespace until (.+) has a character that is not a newline to match
SearchIn(s) ==
    LET starts(i) == {k \in (i + 3)..SpaceRunEnd(s, i + 2) : k <= Len(s) /\ s[k] # "\n"}
        ok(i) == StartsWithAt(s, i, <<"i", "n">>) /\ starts(i) # {}
        hits == {i \in 1..Len(s) : ok(i)}
        first == CHOOSE i \in hits : \A k \in hits : i <= k
        g == CHOOSE k \in starts(first) : \A j \in starts(first) : k >= j
    IN  IF hits = {} THEN None
        ELSE Some(SubSeq(s, g, IndexFrom(s, g, "\n") - 1))

Unknown == <<"U", "n", "k", "n", "o", "w", "n">>
NotAvailable == <<"N", "/", "A">>

\* InteropProdParser.extract_alarm_info (InteropTestParser delegates to it);
\* parsed_ts is what MessageTimestamp gives for the message, read once the
\* name and the location are known
InteropProdParser_extract_alarm_info(oncall_config, message, parsed_ts) ==
    IF Get(message, "files", <<>>) = <<>> THEN NoAlarm
    ELSE LET alarm_file == message.files[1]
             alarm_name_raw == Get(alarm_file, "name", <<>>)
             alarm_name_match == SearchQuoted(alarm_name_raw)
             location_match == SearchIn(alarm_name_raw)
         IN  IF alarm_name_raw = PyNone THEN Raise("TypeError")
             ELSE AlarmInfo(oncall_config,
                 [id |-> Get(alarm_file, "id", NotAvailable),
                  name |-> IF alarm_name_match # None THEN alarm_name_match[1]
                           ELSE alarm_name_raw,
                  location |-> IF location_match # None THEN Strip(location_match[1])
                               ELSE Unknown],
                 Get(alarm_file, "plain_text", <<>>), parsed_ts)

\* the parser classes by key
ParserMap ==
    { <<SEND, prod>>, <<SEND, uat>>, <<INTEROP, prod>>, <<INTEROP, test>> }

\* get_parser without the fallback to the prod parser of the product
get_parser_exact_only(product, environment) ==
    IF <<Upper(product), Lower(environment)>> \in ParserMap
    THEN Some(<<Upper(product), Lower(environment)>>)
    ELSE None

\* SlackMessageParserProvider.get_parser: the key of the parser class, or None
get_parser(product, environment) ==
    LET exact_key == <<Upper(product), Lower(environment)>>
        fallback_key == <<Upper(product), prod>>
    IN  IF exact_key \in ParserMap THEN Some(exact_key)
        ELSE IF fallback_key \in ParserMap THEN Some(fallback_key)
        ELSE None

\* slack_parser.extract_alarm_info for the parser class of key
ExtractAt(key, oncall_config, message, parsed_ts) ==
    IF key[1] = SEND
    THEN SendProdParser_extract_alarm_info(oncall_config, message, parsed_ts)
    ELSE InteropProdParser_extract_alarm_info(oncall_config, message, parsed_ts)
extract_alarm_info(key, h, oncall_config, message) ==
    ExtractAt(key, oncall_config, message, MessageTimestamp(h, message))

(***************************************************************************)
(* alarm_parser.py                                                         *)
(***************************************************************************)
\* the positional parameters (after self) that the methods of IgnoreRuleParser
\* accept, and the methods the class defines
should_ignore_message_params == 2
get_ignore_reason_params == 1
IgnoreRuleParserMethods ==
    {"should_ignore_message", "_rule_matches_message", "_check_all_fields",
     "_check_specific_path", "_extract_values_by_path",
     "_extract_alarm_name_from_title", "_contains_pattern", "get_ignore_reason",
     "add_ignore_rule", "remove_ignore_rule", "get_ignore_rules",
     "get_ignore_patterns"}

\* the positional arguments analyze_alarms and create_ignored_message_info pass:
\* (message, environment, alarm_timestamp)
IgnoreCallArgs == <<"message", "environment", "alarm_timestamp">>

\* ignore_rule_parser.should_ignore_message(*args) as Python binds the call
call_should_ignore_message(rules, message, environment, nargs) ==
    IF nargs > should_ignore_message_params THEN Raise("TypeError")
    ELSE Value(should_ignore_message(rules, message,
                   IF nargs >= 2 THEN environment ELSE None))

\* ignore_rule_parser.get_ignore_reason(*args) as Python binds the call
call_get_ignore_reason(rules, message, nargs) ==
    IF nargs > get_ignore_reason_params THEN Raise("TypeError")
    ELSE Value(get_ignore_reason(rules, message))

\* create_ignored_message_info on the host h; alarm_info is a dict, empty for
\* None.  The timestamp is read first: of alarm_info when it is truthy, else
\* parse_slack_ts of the 'ts' of the message.  The attribute lookup of
\* get_matched_rule comes next, then the call of get_ignore_reason
IgnoredTimestamp(h, message, alarm_info) ==
    IF DOMAIN alarm_info = {}
    THEN SomeParsed(parse_slack_ts(h, Get(message, "ts", <<"0">>)))
    ELSE IF "timestamp" \in DOMAIN alarm_info THEN Value(alarm_info.timestamp)
    ELSE Raise("KeyError")
IgnoredMessageInfo(message, alarm_info, given, alarm_timestamp, reason) ==
    IF alarm_timestamp.kind = "raise" THEN alarm_timestamp
    ELSE IF "get_matched_rule" \notin IgnoreRuleParserMethods
    THEN Raise("AttributeError")
    ELSE IF given /\ ("name" \notin DOMAIN alarm_info \/ "id" \notin DOMAIN alarm_info)
    THEN Raise("KeyError")
    ELSE IF reason.kind = "raise" THEN reason
    ELSE Value([name |-> IF given THEN alarm_info.name ELSE Unknown,
                id |-> IF given THEN alarm_info.id ELSE NotAvailable,
                timestamp |-> alarm_timestamp.value,
                reason |-> reason.value,
                text |-> Get(message, "text", <<>>)])
create_ignored_message_info(h, rules, message, alarm_info, environment) ==
    IgnoredMessageInfo(message, alarm_info, DOMAIN alarm_info # {},
                       IgnoredTimestamp(h, message, alarm_info),
                       call_get_ignore_reason(rules, message, Len(IgnoreCallArgs)))

\* alarm_stats[alarm_name].append(alarm_info) on a defaultdict(list), kept as
\* the list of its (name, entries) items in insertion order
RECURSIVE StatsAppend(_, _, _)
StatsAppend(stats, name, entries) ==
    IF stats = <<>> THEN <<[name |-> name, entries |-> entries]>>
    ELSE IF Head(stats).name = name
    THEN <<[name |-> name, entries |-> Head(stats).entries \o entries]>> \o Tail(stats)
    ELSE <<Head(stats)>> \o StatsAppend(Tail(stats), name, entries)

EmptyCounts ==
    [alarm_stats |-> <<>>, total_alarms |-> 0, ignored_messages |-> <<>>,
     oncall_total |-> 0, oncall_in_reperibilita |-> 0]

\* the counters of analyze_alarms after it has counted the alarm alarm_info, or
\* the exception is_oncall_in_reperibilita raises
CountedWith(alarm_type, acc, in_reperibilita) ==
    IF in_reperibilita.kind = "raise" THEN in_reperibilita
    ELSE Value([acc EXCEPT
        !.total_alarms = @ + 1,
        !.oncall_total = IF is_oncall(alarm_type) THEN @ + 1 ELSE @,
        !.oncall_in_reperibilita = IF in_reperibilita.value THEN @ + 1 ELSE @])
Counted(h, alarm_type, acc, alarm_info) ==
    CountedWith(alarm_type, acc,
                IF is_oncall(alarm_type) /\ alarm_info.timestamp # None
                THEN is_oncall_in_reperibilita(h, alarm_info.timestamp)
                ELSE Value(FALSE))

\* the branch of analyze_alarms on the ignore decision; ignored is the outcome of
\* create_ignored_message_info, which is called when the decision is true
AnalyzeDecided(counted, alarm_info, decision, ignored) ==
    IF counted.kind = "raise" THEN counted
    ELSE IF decision.kind = "raise" THEN decision
    ELSE IF decision.value
    THEN IF ignored.kind = "raise" THEN ignored
         ELSE Value([counted.value EXCEPT !.ignored_messages = Append(@, ignored.value)])
    ELSE Value([counted.value EXCEPT
                   !.alarm_stats = StatsAppend(@, alarm_info.name, <<alarm_info>>)])

\* the body of the loop of analyze_alarms once extraction has returned ex
AnalyzeExtracted(h, rules, alarm_type, acc, message, ex) ==
    IF ex.kind = "raise" THEN ex
    ELSE IF ex.value = None THEN Value(acc)
    ELSE IF ~matches_alarm_name(alarm_type, ex.value[1].name) THEN Value(acc)
    ELSE AnalyzeDecided(
             Counted(h, alarm_type, acc, ex.value[1]),
             ex.value[1],
             call_should_ignore_message(rules, message, alarm_type.environment,
                                        Len(IgnoreCallArgs)),
             create_ignored_message_info(h, rules, message, ex.value[1],
                                         alarm_type.environment))

\* one iteration of the loop of analyze_alarms over the accumulators acc
AnalyzeMessage(h, key, alarm_type, product_config, acc, message) ==
    AnalyzeExtracted(h, product_config.ignore_rules, alarm_type, acc, message,
                     extract_alarm_info(key, h, product_config.oncall_config, message))

RECURSIVE AnalyzeLoop(_, _, _, _, _, _, _)
\* the loop of analyze_alarms after the iteration on message i has ended in step
AnalyzeNext(h, key, alarm_type, product_config, messages, i, step) ==
    IF step.kind = "raise" THEN step
    ELSE AnalyzeLoop(h, key, alarm_type, product_config, messages, i + 1, step.value)

\* the loop of analyze_alarms from message i on
AnalyzeLoop(h, key, alarm_type, product_config, messages, i, acc) ==
    IF i > Len(messages) THEN Value(acc)
    ELSE AnalyzeNext(h, key, alarm_type, product_config, messages, i,
                     AnalyzeMessage(h, key, alarm_type, product_config, acc, messages[i]))

\* AlarmAnalysisResult(...) as analyze_alarms builds it
MakeResult(acc, alarm_type) ==
    [alarm_stats |-> acc.alarm_stats,
     total_alarms |-> acc.total_alarms,
     analyzable_alarms |-> acc.total_alarms - Len(acc.ignored_messages),
     ignored_alarms |-> Len(acc.ignored_messages),
     ignored_messages |-> acc.ignored_messages,
     oncall_total |-> acc.oncall_total,
     oncall_in_reperibilita |-> acc.oncall_in_reperibilita,
     alarm_type |-> Some(alarm_type)]

\* analyze_alarms once the loop has ended in loop
AnalyzeReturn(alarm_type, loop) ==
    IF loop.kind = "raise" THEN loop
    ELSE Value(MakeResult(loop.value, alarm_type))

\* analyze_alarms with the parser class slack_parser
AnalyzeWith(h, messages, alarm_type, product_config, slack_parser) ==
    IF slack_parser = None THEN Raise("ValueError")
    ELSE AnalyzeReturn(alarm_type,
             AnalyzeLoop(h, slack_parser[1], alarm_type, product_config, messages, 1,
                         EmptyCounts))

\* analyze_alarms on the host h: Value(result) or Raise(exception)
analyze_alarms(h, messages, alarm_type, product_config) ==
    AnalyzeWith(h, messages, alarm_type, product_config,
                get_parser(alarm_type.product, alarm_type.environment))

(***************************************************************************)
(* alarm_analysis_result.py                                                *)
(***************************************************************************)
\* AlarmAnalysisResult()
EmptyResult ==
    [alarm_stats |-> <<>>, total_alarms |-> 0, analyzable_alarms |-> 0,
     ignored_alarms |-> 0, ignored_messages |-> <<>>, oncall_total |-> 0,
     oncall_in_reperibilita |-> 0, alarm_type |-> None]

\* the inner loop of merge_analysis_results over the items of result.alarm_stats
RECURSIVE MergeStats(_, _)
MergeStats(merged_stats, stats) ==
    IF stats = <<>> THEN merged_stats
    ELSE MergeStats(StatsAppend(merged_stats, Head(stats).name, Head(stats).entries),
                    Tail(stats))

\* MergeOne without the sum of ignored_alarms
MergeOneWithoutIgnored(merged, result) ==
    [merged EXCEPT
        !.alarm_stats = MergeStats(@, result.alarm_stats),
        !.total_alarms = @ + result.total_alarms,
        !.analyzable_alarms = @ + result.analyzable_alarms,
        !.oncall_total = @ + result.oncall_total,
        !.oncall_in_reperibilita = @ + result.oncall_in_reperibilita,
        !.ignored_messages = @ \o result.ignored_messages]

\* alarm_stats[name] = entries
RECURSIVE StatsPut(_, _, _)
StatsPut(stats, name, entries) ==
    IF stats = <<>> THEN <<[name |-> name, entries |-> entries]>>
    ELSE IF Head(stats).name = name
    THEN <<[name |-> name, entries |-> entries]>> \o Tail(stats)
    ELSE <<Head(stats)>> \o StatsPut(Tail(stats), name, entries)

\* merged_stats.update(stats)
RECURSIVE StatsUpdate(_, _)
StatsUpdate(merged_stats, stats) ==
    IF stats = <<>> THEN merged_stats
    ELSE StatsUpdate(StatsPut(merged_stats, Head(stats).name, Head(stats).entries),
                     Tail(stats))

\* MergeOne with the buckets replaced (dict.update), not extended
MergeOneUpdatingStats(merged, result) ==
    [merged EXCEPT
        !.alarm_stats = StatsUpdate(@, result.alarm_stats),
        !.total_alarms = @ + result.total_alarms,
        !.analyzable_alarms = @ + result.analyzable_alarms,
        !.ignored_alarms = @ + result.ignored_alarms,
        !.oncall_total = @ + result.oncall_total,
        !.oncall_in_reperibilita = @ + result.oncall_in_reperibilita,
        !.ignored_messages = @ \o result.ignored_messages]

\* MergeOne with the on-call counters assigned (=), not added (+=)
MergeOneAssigningOncall(merged, result) ==
    [merged EXCEPT
        !.alarm_stats = MergeStats(@, result.alarm_stats),
        !.total_alarms = @ + result.total_alarms,
        !.analyzable_alarms = @ + result.analyzable_alarms,
        !.ignored_alarms = @ + result.ignored_alarms,
        !.oncall_total = result.oncall_total,
        !.oncall_in_reperibilita = result.oncall_in_reperibilita,
        !.ignored_messages = @ \o result.ignored_messages]

\* one iteration of the loop of merge_analysis_results
MergeOne(merged, result) ==
    [merged EXCEPT
        !.alarm_stats = MergeStats(@, result.alarm_stats),
        !.total_alarms = @ + result.total_alarms,
        !.analyzable_alarms = @ + result.analyzable_alarms,
        !.ignored_alarms = @ + result.ignored_alarms,
        !.oncall_total = @ + result.oncall_total,
        !.oncall_in_reperibilita = @ + result.oncall_in_reperibilita,
        !.ignored_messages = @ \o result.ignored_messages]

\* the loop of merge_analysis_results from a merged result on
RECURSIVE MergeFrom(_, _)
MergeFrom(merged, results) ==
    IF results = <<>> THEN merged
    ELSE MergeFrom(MergeOne(merged, Head(results)), Tail(results))

\* merge_analysis_results
merge_analysis_results(results) == MergeFrom(EmptyResult, results)

(***************************************************************************)
(* utils/time_utils.py                                                     *)
(***************************************************************************)
\* str.split(sep): the list of the pieces of s between the occurrences of sep
RECURSIVE Split(_, _)
Split(s, sep) ==
    LET k == IndexFrom(s, 1, sep)
    IN  IF k > Len(s) THEN <<s>>
        ELSE <<SubSeq(s, 1, k - 1)>> \o Split(Tail_(s, k + 1), sep)

\* datetime.strptime(s, "%d-%m-%y"): the day as days since 1970-01-01 (the
\* datetime is the midnight of that day), or the exception
DayOfParsed(parsed) == IF parsed.kind = "raise" THEN parsed ELSE Value(parsed.value.date)
strptime_dmy(s) == DayOfParsed(strptime(s, FormatDMY))

\* the days (start_day, end_day) both window functions parse from date_str
WindowDays(start_day, end_day) ==
    IF start_day.kind = "raise" THEN start_day
    ELSE IF end_day.kind = "raise" THEN end_day
    ELSE IF start_day.value > end_day.value THEN Raise("ValueError")
    ELSE Value(<<start_day.value, end_day.value>>)
WindowOfOneDay(day) == WindowDays(day, day)
ParseWindowDaysAt(date_str, k) ==
    IF k <= Len(date_str)
    THEN WindowDays(strptime_dmy(Strip(SubSeq(date_str, 1, k - 1))),
                    strptime_dmy(Strip(Tail_(date_str, k + 1))))
    ELSE WindowOfOneDay(strptime_dmy(date_str))
ParseWindowDays(date_str) == ParseWindowDaysAt(date_str, IndexFrom(date_str, 1, ":"))

\* ROME_TZ.localize(day).replace(hour, minute, second, microsecond)
\*   .astimezone(pytz.utc).timestamp(): replace keeps the tzinfo, and with it
\* the UTC offset, that localize chose for the day's midnight.  The float is
\* kept as the instant s = <<day, second of the day>> and the microsecond us:
\* two such timestamps of the years %y gives that differ are different floats
LocalizedReplaceTimestamp(day, seconds_of_day, microsecond) ==
    [s |-> PairAdd(<<day, seconds_of_day>>, -LocalizeOffsetAt(<<day, 0>>)),
     us |-> microsecond]

\* get_evening_window with the start taken a day of 86400 seconds before 18:00
\* of the first day, not as 18:00 of the day before
EveningWindowBackADay(days) ==
    IF days.kind = "raise" THEN days
    ELSE Value(<<[s |-> PairAdd(LocalizedReplaceTimestamp(days.value[1], 18 * 3600, 0).s,
                                -86400),
                  us |-> 0],
                 LocalizedReplaceTimestamp(days.value[2], 18 * 3600, 0)>>)
get_evening_window_back_a_day(date_str) == EveningWindowBackADay(ParseWindowDays(date_str))

\* get_evening_window
\* the evening window of the parsed days: 18:00 of the day before the first to
\* 18:00 of the last
EveningWindow(days) ==
    IF days.kind = "raise" THEN days
    ELSE Value(<<LocalizedReplaceTimestamp(days.value[1] - 1, 18 * 3600, 0),
                 LocalizedReplaceTimestamp(days.value[2], 18 * 3600, 0)>>)
get_evening_window(date_str) == EveningWindow(ParseWindowDays(date_str))

\* get_oncall_window
\* the on-call window of the parsed days: 00:00:00 of the first to
\* 23:59:59.999999 of the last
OncallWindow(days) ==
    IF days.kind = "raise" THEN days
    ELSE Value(<<LocalizedReplaceTimestamp(days.value[1], 0, 0),
                 LocalizedReplaceTimestamp(days.value[2],
                                           23 * 3600 + 59 * 60 + 59, 999999)>>)
get_oncall_window(date_str) == OncallWindow(ParseWindowDays(date_str))

\* AlarmType.get_time_window
get_time_window(alarm_type, date_str) ==
    IF is_oncall(alarm_type) THEN get_oncall_window(date_str)
    ELSE get_evening_window(date_str)

(***************************************************************************)
(* Inputs: the raw events, rules and configurations the operations are     *)
(* applied to                                                              *)
(***************************************************************************)
\* '#<id>: ALARM: "<name>" in <location>'
OpeningTitle(id, name, location) == <<"#">> \o id \o AlarmLit \o name \o InLit \o location

DBTimeout == <<"D", "B", "-", "T", "i", "m", "e", "o", "u", "t">>
DiskFull == <<"D", "i", "s", "k", "-", "F", "u", "l", "l">>
OcApi == <<"o", "c", "-", "a", "p", "i">>
ApiOc == <<"a", "p", "i", "-", "O", "C">>
ProdApi == <<"p", "r", "o", "d", "-", "a", "p", "i">>
Disk == <<"D", "i", "s", "k">>
disk == <<"d", "i", "s", "k">>
Timeout == <<"T", "i", "m", "e", "o", "u", "t">>
EnvApi == EnvPlaceholder \o <<"-", "a", "p", "i">>
eu == <<"e", "u">>
Hello == <<"h", "e", "l", "l", "o">>

\* a SEND event: one attachment whose title opens the alarm
SendEvent(id, name, ts) ==
    [text |-> <<>>,
     attachments |-> <<[title |-> OpeningTitle(Str(id), name, eu),
                        fallback |-> <<>>, text |-> <<>>]>>,
     files |-> <<>>,
     ts |-> ts]

\* a SEND event that opens the alarm in the fallback, not in the title
SendFallbackEvent(id, name, ts) ==
    [text |-> <<>>,
     attachments |-> <<[title |-> Hello,
                        fallback |-> OpeningTitle(Str(id), name, eu), text |-> <<>>]>>,
     files |-> <<>>,
     ts |-> ts]

\* an event that is no alarm
NoiseEvent(ts) ==
    [text |-> Disk,
     attachments |-> <<[title |-> Hello, fallback |-> <<>>, text |-> <<>>]>>,
     files |-> <<>>,
     ts |-> ts]

\* an INTEROP event: one file named 'ALARM: "<name>" in <location>'
InteropEvent(id, name, ts) ==
    [text |-> <<>>,
     attachments |-> <<>>,
     files |-> <<[name |-> SubSeq(AlarmLit, 3, Len(AlarmLit)) \o name \o InLit \o eu,
                  id |-> Str(id), plain_text |-> Disk]>>,
     ts |-> ts]

\* an INTEROP event whose file has no 'id'
InteropEventWithoutId(name, ts) ==
    [text |-> <<>>,
     attachments |-> <<>>,
     files |-> <<[name |-> SubSeq(AlarmLit, 3, Len(AlarmLit)) \o name \o InLit \o eu,
                  plain_text |-> Disk]>>,
     ts |-> ts]

\* a SEND event without 'ts', 'text' and 'files'
SendEventWithoutTs(id, name) ==
    [attachments |-> <<[title |-> OpeningTitle(Str(id), name, eu)]>>]

AlarmNames == {DBTimeout, DiskFull, OcApi, ApiOc, ProdApi}

\* the raw events
Events ==
    {SendEvent(42, n, Str(u)) : n \in AlarmNames, u \in EventInstants}
    \cup {SendEvent(7, DiskFull, None), NoiseEvent(Str(1735689600)),
          SendFallbackEvent(8, DBTimeout, TsWithMicroseconds),
          InteropEvent(9, DiskFull, Str(1736600400)),
          [InteropEvent(9, DiskFull, Str(1736600400)) EXCEPT !.files[1].id = <<>>],
          InteropEventWithoutId(DiskFull, Str(1736600400)),
          SendEventWithoutTs(7, DiskFull),
          SendEvent(6, DiskFull, TsInExponentForm)}

\* time constraints, as TimeConstraint.__init__ leaves them
NoConstraint == [periods |-> <<>>, weekdays |-> <<>>, hours |-> <<>>]
Weekend == [periods |-> <<>>, weekdays |-> <<5, 6>>, hours |-> <<>>]
\* hours 22:00-02:00
Night == [periods |-> <<>>, weekdays |-> <<>>,
          hours |-> <<[start |-> [s |-> 22 * 3600, us |-> 0],
                       end |-> [s |-> 2 * 3600, us |-> 0]]>>]
\* period 2025-01-01 .. 2025-01-31, date only
January == [periods |-> <<[start |-> Some([date |-> DaysFromCivil(2025, 1, 1), time |-> 0,
                                           us |-> 0, fold |-> 0]),
                           start_is_date_only |-> TRUE,
                           end |-> Some([date |-> DaysFromCivil(2025, 1, 31), time |-> 0,
                                         us |-> 0, fold |-> 0]),
                           end_is_date_only |-> TRUE]>>,
            weekdays |-> <<>>, hours |-> <<>>]

Rule(pattern, path, environments, reason, validity, exclusions) ==
    [pattern |-> pattern, path |-> path, environments |-> environments,
     reason |-> reason, validity |-> validity, exclusions |-> exclusions]

\* the ignore rules a product may declare
RulePool ==
    { Rule(Disk, <<"*">>, <<>>, PyNone, None, None),
      Rule(disk, <<"attachments", "title">>, <<uat>>, <<"u">>, None, None),
      Rule(Timeout, <<"attachments", "title", "alarm_name">>, <<>>, <<"w">>,
           Some(Weekend), None),
      Rule(DBTimeout, <<"*">>, <<prod, uat>>, <<"n">>, Some(NoConstraint), Some(Night)),
      Rule(EnvApi, <<"attachments", "title">>, <<>>, PyNone, Some(January), None),
      Rule(Disk, <<"files", "plain_text">>, <<>>, <<"f">>, None, None) }

\* the longest rule list, batch and list of results
MaxRules == 2
MaxBatch == 2
MaxResults == 3

\* the lists of at most n items of S
SeqsUpTo(S, n) == UNION {[1..k -> S] : k \in 0..n}

\* the items of the list s
Range(s) == {s[i] : i \in 1..Len(s)}

RuleLists == SeqsUpTo(RulePool, MaxRules)

Environments == {prod, uat, test}

(***************************************************************************)
(* The rule engine applied to one raw event                                *)
(***************************************************************************)
\* alarm_info['timestamp'] of an event whose ts is absent or numeric
EventTimestamp(h, message) ==
    IF ~Truthy(Get(message, "ts", PyNone)) THEN None
    ELSE Some(parse_slack_ts(h, message.ts).value)

\* no operation has been applied yet
Idle == [op |-> "idle"]

\* IgnoreRuleParser(rules).should_ignore_message(message, environment) for an
\* alarm whose timestamp is alarm_timestamp
ShouldIgnoreMessage ==
    /\ call = Idle
    /\ \E rules \in RuleLists, message \in Events, environment \in Environments :
        /\ call' = [op |-> "should_ignore_message", rules |-> rules,
                    message |-> message, environment |-> environment,
                    alarm_timestamp |-> EventTimestamp(host, message),
                    out |-> should_ignore_message(rules, message, environment)]
        /\ UNCHANGED <<host, run, heap, engine>>

\* the decision as analyze_alarms asks for it (alarm_parser.py line 70)
AnalyzeIgnoreDecision ==
    /\ call = Idle
    /\ \E rules \in RuleLists, message \in Events, environment \in Environments :
        /\ call' = [op |-> "analyze_ignore_decision", rules |-> rules,
                    message |-> message, environment |-> environment,
                    alarm_timestamp |-> EventTimestamp(host, message),
                    out |-> call_should_ignore_message(rules, message, environment,
                                                       Len(IgnoreCallArgs))]
        /\ UNCHANGED <<host, run, heap, engine>>

\* IgnoreRuleParser(rules).get_ignore_reason(message) for an alarm the engine
\* was asked about in environment
GetIgnoreReason ==
    /\ call = Idle
    /\ \E rules \in RuleLists, message \in Events, environment \in Environments :
        /\ call' = [op |-> "get_ignore_reason", rules |-> rules,
                    message |-> message, environment |-> environment,
                    alarm_timestamp |-> EventTimestamp(host, message),
                    decision |-> should_ignore_message(rules, message, environment),
                    out |-> get_ignore_reason(rules, message)]
        /\ UNCHANGED <<host, run, heap, engine>>

\* create_ignored_message_info(message, ignore_rule_parser, alarm_info, environment),
\* with the alarm_info of the extraction or without one (None)
AlarmInfosGiven(ex) ==
    {<<>>} \cup (IF ex.kind = "value" /\ ex.value # None THEN {ex.value[1]} ELSE {})

CreateIgnoredMessageInfo ==
    /\ call = Idle
    /\ \E rules \in RuleLists, message \in Events \cup {SendEvent(7, DiskFull, NotANumber)},
          environment \in Environments :
            \E alarm_info \in AlarmInfosGiven(
                                  extract_alarm_info(<<SEND, prod>>, host, None, message)) :
                /\ call' = [op |-> "create_ignored_message_info", rules |-> rules,
                            message |-> message, environment |-> environment,
                            alarm_info |-> alarm_info,
                            out |-> create_ignored_message_info(host, rules, message,
                                                                alarm_info, environment)]
                /\ UNCHANGED <<host, run, heap, engine>>

InitRules == host \in HostZones /\ call = Idle /\ run = None /\ heap = <<>> /\ engine = None

NextRules ==
    \/ ShouldIgnoreMessage
    \/ AnalyzeIgnoreDecision
    \/ GetIgnoreReason
    \/ CreateIgnoredMessageInfo

SpecRules == InitRules /\ [][NextRules]_vars

\* a rule is time-valid at the alarm timestamp; a rule with a time constraint
\* does not apply to an alarm without timestamp
TimeValid(rule, alarm_timestamp) ==
    IF alarm_timestamp = None
    THEN /\ rule.validity # None => TimeConstraint_is_empty(rule.validity[1])
         /\ rule.exclusions # None => TimeConstraint_is_empty(rule.exclusions[1])
    ELSE is_valid_at(rule, alarm_timestamp[1])

\* the rules that cause (message, environment, alarm_timestamp) to be ignored:
\* they apply to the environment, match structurally and are time-valid
CausingRules(rules, message, environment, alarm_timestamp) ==
    {i \in 1..Len(rules) :
        /\ applies_to_environment(rules[i], environment)
        /\ rule_matches_message(rules[i], message, environment)
        /\ TimeValid(rules[i], alarm_timestamp)}

\* C1: the ignore decision of the rule engine is true only if some rule both
\* matches the message structurally and is time-valid at the alarm timestamp
C1_IgnoredOnlyByTimeValidRule ==
    (call.op = "should_ignore_message" /\ call.out)
        => CausingRules(call.rules, call.message, call.environment,
                        call.alarm_timestamp) # {}

\* C2: when the decision is true, the reason is the reason of the first rule in
\* declaration order that applies to the environment, matches the message and
\* is time-valid, and it is never 'Unknown reason'
C2_ReasonOfFirstCausingRule ==
    (call.op = "get_ignore_reason" /\ call.decision)
        => LET hits == CausingRules(call.rules, call.message, call.environment,
                                     call.alarm_timestamp)
           IN  /\ hits # {}
               /\ call.out = RuleReason(call.rules[CHOOSE i \in hits :
                                                       \A k \in hits : i <= k])
               /\ call.out # UnknownReason

(***************************************************************************)
(* Alarm types of a product and environment                                *)
(***************************************************************************)
Channel1 == <<"C", "1">>
Channel2 == <<"C", "2">>

\* the on-call definitions a product may carry: none, or a channel and a pattern
\* that compiles, is empty or is None
OncallConfigs ==
    { None,
      Some([channel_id |-> Channel2, pattern |-> <<"o", "c">>]),
      Some([channel_id |-> Channel2, pattern |-> <<"^", "o", "c">>]),
      Some([channel_id |-> Channel2, pattern |-> <<"p", "r", "o", "d">>]),
      Some([channel_id |-> Channel2, pattern |-> <<"o", "c", ".", "a", "p", "i">>]),
      Some([channel_id |-> Channel2, pattern |-> <<"o", "c", "|", "d", "b">>]),
      Some([channel_id |-> Channel2, pattern |-> <<"a", "p", "i", "$">>]),
      Some([channel_id |-> Channel2, pattern |-> <<"(", "?", "i", ")", "o", "c">>]),
      Some([channel_id |-> Channel2, pattern |-> <<>>]),
      Some([channel_id |-> Channel2, pattern |-> PyNone]) }

\* the environments a product may configure, with their channels
EnvironmentMaps ==
    { [e \in {prod} |-> Channel1],
      [e \in {prod, uat} |-> Channel1],
      [e \in {prod, test} |-> IF e = prod THEN Channel1 ELSE <<>>] }

ProductConfig(name, environments, ignore_rules, oncall_config) ==
    [name |-> name, environments |-> environments, ignore_rules |-> ignore_rules,
     oncall_config |-> oncall_config]

\* alarm names, as extraction may produce them
NamePool == AlarmNames \cup {<<>>, <<"O", "C", "-", "d", "b">>, <<"x">>}

\* build_alarm_types(product_config, product_name, environment)
BuildAlarmTypes ==
    /\ call = Idle
    /\ \E product \in {SEND, INTEROP}, environments \in EnvironmentMaps,
          oncall_config \in OncallConfigs, environment \in Environments :
        LET product_config == ProductConfig(product, environments, <<>>, oncall_config)
        IN  /\ call' = [op |-> "build_alarm_types", product_config |-> product_config,
                        environment |-> environment,
                        out |-> build_alarm_types(product_config, product, environment)]
            /\ UNCHANGED <<host, run, heap, engine>>

\* alarm_type.matches_alarm_name(alarm_name) for each of the types built
NamesMatched(product_config, environment, alarm_name, built) ==
    /\ built.kind = "value"
    /\ call' = [op |-> "matches_alarm_name", product_config |-> product_config,
                environment |-> environment, alarm_name |-> alarm_name,
                types |-> built.value,
                out |-> [i \in 1..Len(built.value) |->
                            matches_alarm_name(built.value[i], alarm_name)]]

MatchesAlarmName ==
    /\ call = Idle
    /\ \E product \in {SEND, INTEROP}, environments \in EnvironmentMaps,
          oncall_config \in OncallConfigs, environment \in Environments,
          alarm_name \in NamePool :
        /\ NamesMatched(ProductConfig(product, environments, <<>>, oncall_config),
                        environment, alarm_name,
                        build_alarm_types(
                            ProductConfig(product, environments, <<>>, oncall_config),
                            product, environment))
        /\ UNCHANGED <<host, run, heap, engine>>

InitTypes == host \in HostZones /\ call = Idle /\ run = None /\ heap = <<>> /\ engine = None

NextTypes == BuildAlarmTypes \/ MatchesAlarmName

SpecTypes == InitTypes /\ [][NextTypes]_vars

\* C3: with a (non-empty) on-call pattern configured, the normal and the on-call
\* type built for prod are mutually exclusive on every (non-empty) alarm name:
\* the normal type matches a name iff the
\* on-call pattern, searched anywhere in the name ignoring case, does not
C3_NormalIffNotOncall ==
    (/\ call.op = "matches_alarm_name"
     /\ call.environment = prod
     /\ call.product_config.oncall_config # None
     /\ Truthy(call.product_config.oncall_config[1].pattern)
     /\ call.alarm_name # <<>>
     /\ Len(call.types) = 2)
        => /\ call.out[1] <=> ~RegexSearch(call.product_config.oncall_config[1].pattern,
                                           call.alarm_name)
           /\ ~(call.out[1] /\ call.out[2])

(***************************************************************************)
(* Analysis of a batch of raw events, and the merge of results             *)
(***************************************************************************)
\* the raw events the batches are made of
BatchEvents ==
    { SendEvent(42, DBTimeout, Str(1735689600)),
      SendEvent(43, DBTimeout, Str(1752786000)),
      SendEvent(44, DiskFull, Str(1736600400)),
      SendEvent(45, OcApi, Str(1752786000)),
      NoiseEvent(Str(1735689600)),
      InteropEvent(9, DiskFull, Str(1736600400)) }

\* five events: three DB-Timeout, one Disk-Full, one that is no alarm
ExampleBatch ==
    << SendEvent(42, DBTimeout, Str(1735689600)),
       NoiseEvent(Str(1735689600)),
       SendEvent(44, DiskFull, Str(1736600400)),
       SendEvent(43, DBTimeout, Str(1752786000)),
       SendEvent(46, DBTimeout, Str(1736600400)) >>

\* one ignore rule: pattern 'Disk', path '*', every environment
ExampleRules == <<Rule(Disk, <<"*">>, <<>>, PyNone, None, None)>>

Batches == SeqsUpTo(BatchEvents, MaxBatch) \cup {ExampleBatch}

\* the product configurations analysed
AnalysisConfigs ==
    { ProductConfig(product, [e \in {prod, uat} |-> Channel1], rules, oncall_config) :
        product \in {SEND, INTEROP},
        rules \in {<<>>, ExampleRules,
                   <<Rule(Timeout, <<"attachments", "title", "alarm_name">>, <<>>, <<"w">>,
                          Some(Weekend), None)>>},
        oncall_config \in {None, Some([channel_id |-> Channel2, pattern |-> <<"o", "c">>])} }

\* alarm_info of a SEND event, as extraction on a host in UTC returns it
Info(message) == extract_alarm_info(<<SEND, prod>>, "UTC", None, message).value[1]

\* an entry of ignored_messages for the alarm info
IgnoredInfo(info, message, reason) ==
    [name |-> info.name, id |-> info.id, timestamp |-> info.timestamp, reason |-> reason,
     text |-> Get(message, "text", <<>>)]

\* the alarm types of SEND prod with on-call alarms 'oc'
SendProdTypes ==
    build_alarm_types(
        ProductConfig(SEND, [e \in {prod} |-> Channel1], <<>>,
                      Some([channel_id |-> Channel2, pattern |-> <<"o", "c">>])),
        SEND, prod).value

\* the events of the accumulators below
AccEvents ==
    <<ExampleBatch[1], ExampleBatch[3], ExampleBatch[4],
      SendEvent(45, OcApi, Str(1752786000)), SendEvent(45, OcApi, Str(1736600400)),
      SendEvent(47, OcApi, Str(1735689600))>>

\* accumulators at the end of the loop of analyze_alarms, for the alarm infos
\* info of the events e
AccsOf(e, info) ==
    { EmptyCounts,
      [alarm_stats |-> <<[name |-> DBTimeout, entries |-> <<info[1], info[3]>>]>>,
       total_alarms |-> 3,
       ignored_messages |-> <<IgnoredInfo(info[2], e[2], <<"w">>)>>,
       oncall_total |-> 0, oncall_in_reperibilita |-> 0],
      [alarm_stats |-> <<[name |-> DiskFull, entries |-> <<info[2]>>],
                         [name |-> DBTimeout, entries |-> <<info[1]>>]>>,
       total_alarms |-> 2,
       ignored_messages |-> <<>>,
       oncall_total |-> 0, oncall_in_reperibilita |-> 0],
      [alarm_stats |-> <<[name |-> OcApi, entries |-> <<info[4], info[5]>>]>>,
       total_alarms |-> 4,
       ignored_messages |-> <<IgnoredInfo(info[6], e[6], <<"n">>),
                              IgnoredInfo(info[4], e[4], <<"n">>)>>,
       oncall_total |-> 4, oncall_in_reperibilita |-> 3] }

AccPool == AccsOf(AccEvents, [i \in 1..Len(AccEvents) |-> Info(AccEvents[i])])

\* the results merged: those analyze_alarms builds from the accumulators, and a
\* result constructed with total_alarms = 1 and every other field defaulted
ResultPool ==
    {MakeResult(acc, SendProdTypes[IF acc.oncall_total > 0 THEN 2 ELSE 1]) : acc \in AccPool}
    \cup {[EmptyResult EXCEPT !.total_alarms = 1]}

\* analyze_alarms(messages, alarm_type, product_config)
AnalyzeAlarms ==
    /\ call = Idle
    /\ run = None
    /\ \E messages \in Batches, product_config \in AnalysisConfigs,
          environment \in {prod, uat} :
        \E alarm_type \in Range(build_alarm_types(product_config, product_config.name,
                                                  environment).value) :
            /\ call' = [op |-> "analyze_alarms", messages |-> messages,
                        alarm_type |-> alarm_type, product_config |-> product_config,
                        out |-> analyze_alarms(host, messages, alarm_type, product_config)]
            /\ UNCHANGED <<host, run, heap, engine>>

\* merge_analysis_results(results) up to the loop: merged = AlarmAnalysisResult()
MergeBegin ==
    /\ call = Idle
    /\ run = None
    /\ \E results \in SeqsUpTo(ResultPool, MaxResults) :
        /\ run' = Some([results |-> results, i |-> 1, merged |-> EmptyResult])
        /\ call' = [op |-> "merge_analysis_results"]
        /\ UNCHANGED <<host, heap, engine>>

\* one iteration of the loop of merge_analysis_results
MergeStep ==
    /\ run # None
    /\ run[1].i <= Len(run[1].results)
    /\ run' = Some([run[1] EXCEPT !.merged = MergeOne(@, run[1].results[run[1].i]),
                                  !.i = @ + 1])
    /\ UNCHANGED <<host, call, heap, engine>>

InitAnalysis == host \in HostZones /\ call = Idle /\ run = None /\ heap = <<>> /\ engine = None

NextAnalysis == AnalyzeAlarms \/ MergeBegin \/ MergeStep

SpecAnalysis == InitAnalysis /\ [][NextAnalysis]_vars

\* merge_analysis_results has returned
MergeReturned == run # None /\ run[1].i > Len(run[1].results)

\* analyzable_alarms + ignored_alarms == total_alarms
Balanced(result) ==
    result.analyzable_alarms + result.ignored_alarms = result.total_alarms

\* C4: every result analyze_alarms returns is balanced (analyzable + ignored =
\* total), and so is the merge of every list of balanced results
C4_AnalyzablePlusIgnoredIsTotal ==
    /\ (call.op = "analyze_alarms" /\ call.out.kind = "value")
           => Balanced(call.out.value)
    /\ (/\ MergeReturned
        /\ \A i \in 1..Len(run[1].results) : Balanced(run[1].results[i]))
           => Balanced(run[1].merged)

\* C4 witness: a merge of two or more balanced results has returned, with alarms
\* ignored and alarms analyzable
C4_Witness ==
    /\ MergeReturned
    /\ Len(run[1].results) >= 2
    /\ \A i \in 1..Len(run[1].results) :
          Balanced(run[1].results[i]) /\ run[1].results[i].total_alarms > 0
    /\ run[1].merged.ignored_alarms > 0
    /\ run[1].merged.analyzable_alarms > 0

\* the sum of a list of integers
RECURSIVE SumOf(_)
SumOf(s) == IF s = <<>> THEN 0 ELSE Head(s) + SumOf(Tail(s))

\* the concatenation of a list of lists
RECURSIVE Concat(_)
Concat(ss) == IF ss = <<>> THEN <<>> ELSE Head(ss) \o Concat(Tail(ss))

\* the names of the buckets of alarm_stats, and the bucket of a name
StatNames(stats) == {stats[k].name : k \in 1..Len(stats)}
Bucket(stats, name) ==
    IF name \in StatNames(stats)
    THEN stats[CHOOSE k \in 1..Len(stats) : stats[k].name = name].entries
    ELSE <<>>

\* C6: the merged counters are the sums of the inputs' counters, ignored_messages
\* is the concatenation of the inputs' lists in input order, and every bucket is
\* the concatenation in input order of the inputs' buckets of that name, nothing
\* dropped or deduplicated
C6_MergeSumsAndConcatenates ==
    MergeReturned =>
        LET rs == run[1].results
            m == run[1].merged
            n == Len(rs)
        IN  /\ m.total_alarms = SumOf([i \in 1..n |-> rs[i].total_alarms])
            /\ m.analyzable_alarms = SumOf([i \in 1..n |-> rs[i].analyzable_alarms])
            /\ m.ignored_alarms = SumOf([i \in 1..n |-> rs[i].ignored_alarms])
            /\ m.oncall_total = SumOf([i \in 1..n |-> rs[i].oncall_total])
            /\ m.oncall_in_reperibilita =
                   SumOf([i \in 1..n |-> rs[i].oncall_in_reperibilita])
            /\ m.ignored_messages = Concat([i \in 1..n |-> rs[i].ignored_messages])
            /\ StatNames(m.alarm_stats) =
                   UNION {StatNames(rs[i].alarm_stats) : i \in 1..n}
            /\ Cardinality(StatNames(m.alarm_stats)) = Len(m.alarm_stats)
            /\ \A name \in StatNames(m.alarm_stats) :
                   Bucket(m.alarm_stats, name) =
                       Concat([i \in 1..n |-> Bucket(rs[i].alarm_stats, name)])

\* C6 witness: a merge has returned in which two inputs hold the same entry under
\* the same name, and ignored messages come from two inputs
C6_Witness ==
    /\ MergeReturned
    /\ \E i, j \in 1..Len(run[1].results), name \in AlarmNames :
          /\ i < j
          /\ Range(Bucket(run[1].results[i].alarm_stats, name))
                 \cap Range(Bucket(run[1].results[j].alarm_stats, name)) # {}
          /\ Len(Bucket(run[1].merged.alarm_stats, name)) >= 3
    /\ \E i, j \in 1..Len(run[1].results) :
          /\ i < j
          /\ run[1].results[i].ignored_messages # <<>>
          /\ run[1].results[j].ignored_messages # <<>>
          /\ run[1].results[i].ignored_messages # run[1].results[j].ignored_messages

\* the permutations of 1..n
Orders(n) == {p \in [1..n -> 1..n] : \A i, j \in 1..n : p[i] = p[j] => i = j}

\* the integer totals of a result
Totals(result) ==
    <<result.total_alarms, result.analyzable_alarms, result.ignored_alarms,
      result.oncall_total, result.oncall_in_reperibilita>>

\* C7: the merged integer totals do not depend on the order of the inputs: the
\* merge of every permutation of the list has the totals of the merge of the list
C7_TotalsIndependentOfOrder ==
    MergeReturned =>
        \A p \in Orders(Len(run[1].results)) :
            Totals(merge_analysis_results(
                       [i \in 1..Len(run[1].results) |-> run[1].results[p[i]]]))
                = Totals(run[1].merged)

\* C7 witness: a merge of three results with three different totals has returned
C7_Witness ==
    /\ MergeReturned
    /\ Len(run[1].results) = 3
    /\ Cardinality({Totals(run[1].results[i]) : i \in 1..3}) = 3
    /\ run[1].merged.oncall_total > 0
    /\ run[1].results[3].oncall_total = 0

\* the alarm record an event extracts to for the parser of alarm_type
ExtractedFor(h, alarm_type, product_config, message) ==
    extract_alarm_info(get_parser(alarm_type.product, alarm_type.environment)[1], h,
                       product_config.oncall_config, message)

\* the event extracts to an alarm record whose name matches the type
CountedFor(alarm_type, ex) ==
    /\ ex.kind = "value"
    /\ ex.value # None
    /\ matches_alarm_name(alarm_type, ex.value[1].name)
IsCounted(h, alarm_type, product_config, message) ==
    CountedFor(alarm_type, ExtractedFor(h, alarm_type, product_config, message))

\* the indices 1..n for which Test holds, in order
IndicesWhere(n, Test(_)) == SelectSeq([i \in 1..n |-> i], Test)

\* the counts of the result out agree with the infos of the counted events and,
\* of these, of the events kept (not ignored)
CountsOfInfos(out, n_counted, n_ignored, infos) ==
    /\ out.kind = "value"
    /\ out.value.total_alarms = n_counted
    /\ out.value.ignored_alarms = n_ignored
    /\ Len(out.value.ignored_messages) = out.value.ignored_alarms
    /\ out.value.analyzable_alarms = Len(infos)
    /\ StatNames(out.value.alarm_stats) = {infos[i].name : i \in 1..Len(infos)}
    /\ \A name \in {infos[i].name : i \in 1..Len(infos)} :
           LET Named(info) == info.name = name
           IN  Bucket(out.value.alarm_stats, name) = SelectSeq(infos, Named)

\* the same once the events counted are known: counted lists their indices
CountsOfCounted(out, ex, ignores, counted) ==
    LET Ignored(i) == ignores[i]
        Kept(i) == ~ignores[i]
    IN  CountsOfInfos(out, Len(counted), Len(SelectSeq(counted, Ignored)),
                      [k \in 1..Len(SelectSeq(counted, Kept)) |->
                          ex[SelectSeq(counted, Kept)[k]].value[1]])

\* the same for the extraction ex[i] and the ignore decision ignores[i] of each
\* event i
CountsOfExtracted(out, alarm_type, ex, ignores) ==
    LET Counts(i) == CountedFor(alarm_type, ex[i])
    IN  CountsOfCounted(out, ex, ignores, IndicesWhere(Len(ex), Counts))

\* C5: analyze_alarms returns a result in which total_alarms is the number of
\* events that extract to a record whose name matches the type, ignored_alarms the
\* number of those for which the ignore decision is true, analyzable_alarms the
\* number of the others, and alarm_stats[name] the records of the counted events
\* with that name that are not ignored, in event order; other events count nowhere
C5_CountsOfAnalysis ==
    call.op = "analyze_alarms" =>
        CountsOfExtracted(call.out, call.alarm_type,
            [i \in 1..Len(call.messages) |->
                ExtractedFor(host, call.alarm_type, call.product_config, call.messages[i])],
            [i \in 1..Len(call.messages) |->
                should_ignore_message(call.product_config.ignore_rules, call.messages[i],
                                       call.alarm_type.environment)])

(***************************************************************************)
(* Time windows and the business-hours check                               *)
(***************************************************************************)
\* target dates and date ranges, DD-MM-YY and DD-MM-YY:DD-MM-YY
DateStrings ==
    { <<"0","1","-","0","1","-","2","5">>,
      <<"1","5","-","0","7","-","2","5">>,
      <<"2","9","-","0","3","-","2","5">>,
      <<"3","0","-","0","3","-","2","5">>,
      <<"3","1","-","0","3","-","2","5">>,
      <<"2","6","-","1","0","-","2","5">>,
      <<"2","7","-","1","0","-","2","5">>,
      <<"3","1","-","0","3","-","2","4">>,
      <<"2","9","-","0","2","-","2","4">>,
      <<"1","-","1","-","2","5">>,
      <<"3","1","-","0","2","-","2","5">>,
      <<"0","1","-","0","1","-","2","5",":","0","2","-","0","1","-","2","5">>,
      <<"2","9","-","0","3","-","2","5",":","3","0","-","0","3","-","2","5">>,
      <<"3","0","-","0","3","-","2","5",":"," ","3","1","-","0","3","-","2","5">>,
      <<"2","5","-","1","0","-","2","5",":","2","6","-","1","0","-","2","5">>,
      <<"0","2","-","0","1","-","2","5",":","0","1","-","0","1","-","2","5">>,
      <<"0","1","-","0","1","-","2","5",":","0","1","-","0","1","-","2","5">>,
      <<" ","1","-","0","1","-","2","5">>,
      <<"0","1","-","0","1","-","2","5",":"," ","2","-","0","1","-","2","5">>,
      <<"1","5","-","0","7","-","4","0">>,
      <<"0","1","-","0","1","-","2","0","2","5">> }

\* the datetime of the instant u: naive as parse_slack_ts gives it on the host h,
\* or aware in UTC
DatetimeOf(h, u, form) ==
    IF form = "naive" THEN fromtimestamp(h, u)
    ELSE [instant |-> u, tzinfo |-> "UTC"]

\* get_evening_window(date_str)
GetEveningWindow ==
    /\ call = Idle
    /\ \E date_str \in DateStrings :
        /\ call' = [op |-> "get_evening_window", date_str |-> date_str,
                    out |-> get_evening_window(date_str)]
        /\ UNCHANGED <<host, run, heap, engine>>

\* get_oncall_window(date_str)
GetOncallWindow ==
    /\ call = Idle
    /\ \E date_str \in DateStrings :
        /\ call' = [op |-> "get_oncall_window", date_str |-> date_str,
                    out |-> get_oncall_window(date_str)]
        /\ UNCHANGED <<host, run, heap, engine>>

\* alarm_type.get_time_window(date_str) for the types of SEND prod
GetTimeWindow ==
    /\ call = Idle
    /\ \E date_str \in DateStrings, alarm_type \in Range(SendProdTypes) :
        /\ call' = [op |-> "get_time_window", date_str |-> date_str,
                    alarm_type |-> alarm_type,
                    out |-> get_time_window(alarm_type, date_str)]
        /\ UNCHANGED <<host, run, heap, engine>>

\* is_oncall_in_reperibilita(alarm_timestamp) on the host
CheckedAt(clock, alarm_timestamp) ==
    call' = [op |-> "is_oncall_in_reperibilita", clock |-> clock,
             alarm_timestamp |-> alarm_timestamp,
             out |-> is_oncall_in_reperibilita(host, alarm_timestamp)]

IsOncallInReperibilita ==
    /\ call = Idle
    /\ \/ \E clock \in RomeClock, form \in {"naive", "aware"} :
            CheckedAt(Some(clock), Some(DatetimeOf(host, clock.u, form)))
       \/ \E clock \in TsClock :
            CheckedAt(Some(clock), Some(parse_slack_ts(host, clock.ts).value))
       \/ CheckedAt(None, None)
    /\ UNCHANGED <<host, run, heap, engine>>

InitTime == host \in HostZones /\ call = Idle /\ run = None /\ heap = <<>> /\ engine = None

NextTime == GetEveningWindow \/ GetOncallWindow \/ GetTimeWindow \/ IsOncallInReperibilita

SpecTime == InitTime /\ [][NextTime]_vars

\* the instant at which the Europe/Rome wall clock shows wall = <<day, second of
\* the day>>, by the UTC offset in force at that instant
RomeInstantOf(wall) ==
    CHOOSE u \in {PairAdd(wall, -7200), PairAdd(wall, -3600)} :
        PairAdd(u, RomeUtcOffsetAt(u)) = wall

\* the wall-clock bounds of the two windows of the days (first, last):
\* <<start, end, microsecond of end>>
EveningBounds(days) == << <<days[1] - 1, 18 * 3600>>, <<days[2], 18 * 3600>>, 0>>
OncallBounds(days) == << <<days[1], 0>>, <<days[2], 23 * 3600 + 59 * 60 + 59>>, 999999>>

\* the window out is that of the wall-clock bounds, each converted with the UTC
\* offset in force at the bound itself
ConvertedAtEachBound(out, bounds) ==
    /\ out[1] = [s |-> RomeInstantOf(bounds[1]), us |-> 0]
    /\ out[2] = [s |-> RomeInstantOf(bounds[2]), us |-> bounds[3]]

\* C8: for every date or range, days of an offset change included, the bounds
\* get_evening_window and get_oncall_window return are the local 18:00 / 18:00,
\* resp. 00:00:00 / 23:59:59.999999, converted with the UTC offset of Europe/Rome
\* in force at each bound instant itself
C8_WindowsConvertedAtEachBound ==
    /\ (call.op = "get_evening_window" /\ call.out.kind = "value")
           => ConvertedAtEachBound(call.out.value,
                                   EveningBounds(ParseWindowDays(call.date_str).value))
    /\ (call.op = "get_oncall_window" /\ call.out.kind = "value")
           => ConvertedAtEachBound(call.out.value,
                                   OncallBounds(ParseWindowDays(call.date_str).value))

\* the wall clock of Europe/Rome at the instant u
RomeWallOf(u) == PairAdd(u, RomeUtcOffsetAt(u))

\* C9: get_time_window selects the window by category: a normal type gets local
\* 18:00 of the day before the first target date through local 18:00 of the last,
\* an on-call type local 00:00:00 of the first target date through local
\* 23:59:59.999999 of the last
C9_WindowByCategory ==
    (call.op = "get_time_window" /\ call.out.kind = "value") =>
        LET days == ParseWindowDays(call.date_str).value
            bounds == IF call.alarm_type.category = "oncall" THEN OncallBounds(days)
                      ELSE EveningBounds(days)
        IN  /\ RomeWallOf(call.out.value[1].s) = bounds[1]
            /\ call.out.value[1].us = 0
            /\ RomeWallOf(call.out.value[2].s) = bounds[2]
            /\ call.out.value[2].us = bounds[3]

\* C10: is_oncall_in_reperibilita(t) is true iff the Europe/Rome local hour of t
\* is < 9 or >= 18: 08:59 true, 09:00 false, 17:59 false, 18:00 true
C10_OutsideBusinessHours ==
    (call.op = "is_oncall_in_reperibilita" /\ call.clock # None) =>
        /\ call.out.kind = "value"
        /\ call.out.value <=> (call.clock[1].hour < 9 \/ call.clock[1].hour >= 18)

\* C10 witness: the check has answered true at local 18:00 for the naive datetime
\* of a host whose zone is Asia/Tokyo
C10_Witness ==
    /\ call.op = "is_oncall_in_reperibilita"
    /\ call.clock # None
    /\ host = "Asia/Tokyo"
    /\ "tzinfo" \notin DOMAIN call.alarm_timestamp[1]
    /\ call.clock[1].hour = 18
    /\ call.clock[1].minute = 0
    /\ call.out = Value(TRUE)

(***************************************************************************)
(* config/time_constraint.py: construction of the constraint objects from  *)
(* the values of the configuration.  A str is a sequence of characters, a  *)
(* dict the record of the keys it has                                      *)
(***************************************************************************)
\* DateTimePeriod._parse_datetime: (datetime, is_date_only) for the formats
\* "%Y-%m-%d %H:%M:%S", "%Y-%m-%d %H:%M" and "%Y-%m-%d", tried in this order,
\* ValueError when none of them fits, TypeError when dt_str is not a str
FirstFormatThatFits(hms, hm, date) ==
    IF hms.kind = "value" THEN Value(<<hms.value, FALSE>>)
    ELSE IF hms.exc # "ValueError" THEN hms
    ELSE IF hm.kind = "value" THEN Value(<<hm.value, FALSE>>)
    ELSE IF date.kind = "value" THEN Value(<<date.value, TRUE>>)
    ELSE Raise("ValueError")
DateTimePeriod_parse_datetime(dt_str) ==
    FirstFormatThatFits(strptime(dt_str, FormatDateHMS), strptime(dt_str, FormatDateHM),
                        strptime(dt_str, FormatDate))

\* the period of two parsed bounds (each None or a pair), or ValueError when
\* the start is after the end
DateTimePeriod_of(s, e) ==
    IF s # None /\ e # None /\ DatetimeLess(e[1][1], s[1][1]) THEN Raise("ValueError")
    ELSE Value([start |-> IF s = None THEN None ELSE Some(s[1][1]),
                start_is_date_only |-> IF s = None THEN FALSE ELSE s[1][2],
                end |-> IF e = None THEN None ELSE Some(e[1][1]),
                end_is_date_only |-> IF e = None THEN FALSE ELSE e[1][2]])

\* DateTimePeriod.__init__(start, end): a falsy bound is left open
DateTimePeriod_between(s, e) ==
    IF s.kind = "raise" THEN s
    ELSE IF e.kind = "raise" THEN e
    ELSE DateTimePeriod_of(IF s.value = None THEN None ELSE Some(s.value),
                           IF e.value = None THEN None ELSE Some(e.value))
DateTimePeriod_init(start, end) ==
    DateTimePeriod_between(
        IF ~Truthy(start) THEN Value(None) ELSE DateTimePeriod_parse_datetime(start),
        IF ~Truthy(end) THEN Value(None) ELSE DateTimePeriod_parse_datetime(end))

\* TimeRange._parse_time: strptime(time_str, "%H:%M").time(); a ValueError is
\* raised again as ValueError, the TypeError of a time_str that is not a str is
\* not caught
TimeOfParsed(parsed) == IF parsed.kind = "raise" THEN parsed ELSE Value(TimeOf(parsed.value))
TimeRange_parse_time(time_str) == TimeOfParsed(strptime(time_str, FormatHM))

\* TimeRange.__init__(start, end)
TimeRange_between(s, e) ==
    IF s.kind = "raise" THEN s
    ELSE IF e.kind = "raise" THEN e
    ELSE Value([start |-> s.value, end |-> e.value])
TimeRange_init(start, end) ==
    TimeRange_between(TimeRange_parse_time(start), TimeRange_parse_time(end))

\* TimeConstraint.WEEKDAY_MAP: the full English names, in the order of their
\* numbers 0..6; the map also holds the first three letters of each
WeekdayNames ==
    <<<<"m", "o", "n", "d", "a", "y">>,
      <<"t", "u", "e", "s", "d", "a", "y">>,
      <<"w", "e", "d", "n", "e", "s", "d", "a", "y">>,
      <<"t", "h", "u", "r", "s", "d", "a", "y">>,
      <<"f", "r", "i", "d", "a", "y">>,
      <<"s", "a", "t", "u", "r", "d", "a", "y">>,
      <<"s", "u", "n", "d", "a", "y">>>>

\* WEEKDAY_MAP.get(name)
WEEKDAY_MAP(name) ==
    IF \E i \in 1..7 : name \in {WeekdayNames[i], SubSeq(WeekdayNames[i], 1, 3)}
    THEN Some((CHOOSE i \in 1..7 :
                   name \in {WeekdayNames[i], SubSeq(WeekdayNames[i], 1, 3)}) - 1)
    ELSE None

\* an entry of a configured list that the constructor passes over
Skip == [kind |-> "skip"]

\* what a loop over the entries leaves: the first error, or the list of the
\* values appended
Collect(outcomes) ==
    IF \E i \in 1..Len(outcomes) : outcomes[i].kind = "raise"
    THEN outcomes[CHOOSE i \in 1..Len(outcomes) :
                      /\ outcomes[i].kind = "raise"
                      /\ \A j \in 1..(i - 1) : outcomes[j].kind # "raise"]
    ELSE LET kept == SelectSeq(outcomes, LAMBDA o : o.kind = "value")
         IN  Value([i \in 1..Len(kept) |-> kept[i].value])

\* one entry of periods: a dict gives DateTimePeriod(get("start"), get("end")),
\* anything else is passed over
PeriodEntry(period_dict) ==
    IF period_dict.type = "dict"
    THEN DateTimePeriod_init(Get(period_dict, "start", PyNone),
                             Get(period_dict, "end", PyNone))
    ELSE Skip

\* one entry of weekdays: an int must be in 0..6, a str must be a key of
\* WEEKDAY_MAP once lower-cased, anything else is passed over
WeekdayEntry(day) ==
    IF day.type = "int"
    THEN IF 0 <= day.number /\ day.number <= 6 THEN Value(day.number)
         ELSE Raise("ValueError")
    ELSE IF day.type = "str"
    THEN IF WEEKDAY_MAP(Lower(day.name)) # None
         THEN Value(WEEKDAY_MAP(Lower(day.name))[1])
         ELSE Raise("ValueError")
    ELSE Skip

\* one entry of hours: a dict with both keys gives TimeRange(start, end),
\* anything else is passed over
HourEntry(hour_dict) ==
    IF hour_dict.type = "dict" /\ {"start", "end"} \subseteq DOMAIN hour_dict
    THEN TimeRange_init(hour_dict.start, hour_dict.end)
    ELSE Skip

\* the constraint of the three collected lists, or the first error
TimeConstraint_of(p, w, h) ==
    IF p.kind = "raise" THEN p
    ELSE IF w.kind = "raise" THEN w
    ELSE IF h.kind = "raise" THEN h
    ELSE Value([periods |-> p.value, weekdays |-> w.value, hours |-> h.value])

\* TimeConstraint.__init__(periods, weekdays, hours)
TimeConstraint_init(periods, weekdays, hours) ==
    TimeConstraint_of(Collect([i \in 1..Len(periods) |-> PeriodEntry(periods[i])]),
                      Collect([i \in 1..Len(weekdays) |-> WeekdayEntry(weekdays[i])]),
                      Collect([i \in 1..Len(hours) |-> HourEntry(hours[i])]))

(***************************************************************************)
(* config/time_constraint.py, config/ignore_rule.py: evaluation for a      *)
(* check_datetime that may be None (an alarm without timestamp).  None has *)
(* no date(), weekday() or time(), and does not compare with a datetime    *)
(***************************************************************************)
\* the error of comparing None with a bound of a period
NoneAgainstBound(is_date_only) ==
    Raise(IF is_date_only THEN "AttributeError" ELSE "TypeError")

\* DateTimePeriod.contains(check_datetime)
call_DateTimePeriod_contains(p, check_datetime) ==
    IF check_datetime # None THEN Value(DateTimePeriod_contains(p, check_datetime[1]))
    ELSE IF p.start # None THEN NoneAgainstBound(p.start_is_date_only)
    ELSE IF p.end # None THEN NoneAgainstBound(p.end_is_date_only)
    ELSE Value(TRUE)

\* TimeConstraint.matches(check_datetime): for None, any() stops at the first
\* period, which either raises or (having no bound) contains everything
call_TimeConstraint_matches(c, check_datetime) ==
    IF TimeConstraint_is_empty(c) THEN Value(TRUE)
    ELSE IF check_datetime # None
    THEN Value(TimeConstraint_matches(c, check_datetime[1]))
    ELSE IF c.periods # <<>>
            /\ call_DateTimePeriod_contains(c.periods[1], None).kind = "raise"
    THEN call_DateTimePeriod_contains(c.periods[1], None)
    ELSE IF c.weekdays # <<>> \/ c.hours # <<>> THEN Raise("AttributeError")
    ELSE Value(TRUE)

\* is_valid_at after the validity check, without the exclusions
ExclusionsIgnored(rule, check_datetime) == Value(TRUE)

\* the part of is_valid_at after the validity check
ExclusionsValidAt(rule, check_datetime) ==
    IF rule.exclusions # None /\ ~TimeConstraint_is_empty(rule.exclusions[1])
    THEN IF call_TimeConstraint_matches(rule.exclusions[1], check_datetime).kind = "raise"
         THEN call_TimeConstraint_matches(rule.exclusions[1], check_datetime)
         ELSE Value(~call_TimeConstraint_matches(rule.exclusions[1], check_datetime).value)
    ELSE Value(TRUE)

\* IgnoreRule.is_valid_at(check_datetime)
call_is_valid_at(rule, check_datetime) ==
    IF rule.validity # None /\ ~TimeConstraint_is_empty(rule.validity[1])
    THEN IF call_TimeConstraint_matches(rule.validity[1], check_datetime).kind = "raise"
         THEN call_TimeConstraint_matches(rule.validity[1], check_datetime)
         ELSE IF ~call_TimeConstraint_matches(rule.validity[1], check_datetime).value
         THEN Value(FALSE)
         ELSE ExclusionsValidAt(rule, check_datetime)
    ELSE ExclusionsValidAt(rule, check_datetime)

(***************************************************************************)
(* The time constraints of the ignore rules: the values the configuration  *)
(* may hold, and the datetimes they are evaluated at                       *)
(***************************************************************************)
\* the naive datetime y-m-d hh:mm:ss
DT(y, m, d, hh, mm, ss) ==
    [date |-> DaysFromCivil(y, m, d), time |-> hh * 3600 + mm * 60 + ss, us |-> 0,
     fold |-> 0]

\* the time of day hh:mm:ss
Clock(hh, mm, ss) == [s |-> hh * 3600 + mm * 60 + ss, us |-> 0]

\* the times of day the ranges are asked about
TimesOfDay ==
    { Clock(23, 30, 0), Clock(1, 0, 0), Clock(12, 0, 0), Clock(2, 0, 0), Clock(2, 0, 1),
      Clock(22, 0, 0), Clock(21, 59, 59), Clock(0, 0, 0), Clock(23, 59, 59),
      Clock(9, 0, 0), Clock(17, 0, 0), Clock(9, 5, 0), Clock(8, 59, 59),
      [s |-> 2 * 3600, us |-> 200], [s |-> 21 * 3600 + 59 * 60 + 59, us |-> 999999] }

\* the datetimes the constraints are asked about
CheckDatetimes ==
    { DT(2024, 12, 31, 23, 59, 59),     \* Tuesday
      DT(2025, 1, 1, 0, 0, 0),          \* Wednesday
      DT(2025, 1, 11, 23, 30, 0),       \* Saturday
      DT(2025, 1, 12, 1, 0, 0),         \* Sunday
      DT(2025, 1, 13, 12, 0, 0),        \* Monday
      DT(2025, 1, 15, 0, 0, 0),         \* Wednesday
      DT(2025, 1, 15, 8, 29, 59),
      DT(2025, 1, 15, 8, 30, 0),
      DT(2025, 1, 31, 0, 0, 0),         \* Friday
      DT(2025, 1, 31, 12, 0, 0),
      DT(2025, 1, 31, 12, 0, 1),
      DT(2025, 1, 31, 23, 59, 59),
      DT(2025, 2, 1, 0, 0, 0),          \* Saturday
      DT(2025, 2, 1, 23, 30, 0),
      [DT(2025, 1, 11, 2, 0, 0) EXCEPT !.us = 200],
      [DT(2025, 1, 31, 12, 0, 0) EXCEPT !.us = 1] }

\* entries of the configured lists: dicts, and values of other types
PeriodDict(start, end) == [type |-> "dict", start |-> start, end |-> end]
HourDict(start, end) == [type |-> "dict", start |-> start, end |-> end]
IntDay(n) == [type |-> "int", number |-> n]
StrDay(name) == [type |-> "str", name |-> name]
FloatDay == [type |-> "float"]
NotADict == [type |-> "str"]

\* the values of the periods, weekdays and hours keys
PeriodLists ==
    { <<>>,
      <<PeriodDict(D20250101, D20250131)>>,
      <<PeriodDict(<<>>, D20250101), PeriodDict(D20250131Noon, D20250201)>>,
      <<PeriodDict(<<>>, <<>>)>>,
      <<PeriodDict(D20250201, D20250101)>>,
      <<PeriodDict(D20250230, <<>>)>>,
      <<PeriodDict(PyNone, D20250101SpaceDay), [type |-> "dict", start |-> D20250115Tab]>>,
      <<NotADict>> }

WeekdayLists ==
    { <<>>,
      <<StrDay(<<"s", "a", "t">>), StrDay(<<"S", "U", "N", "D", "A", "Y">>)>>,
      <<IntDay(0)>>,
      <<IntDay(7)>>,
      <<StrDay(<<"f", "u", "n", "d", "a", "y">>)>>,
      <<FloatDay>> }

HourLists ==
    { <<>>,
      <<HourDict(T2200, T0200)>>,
      <<HourDict(T0900, T1700), HourDict(T2200, T0200)>>,
      <<[type |-> "dict", start |-> T0900]>>,
      <<[type |-> "dict", start |-> T2400]>>,
      <<HourDict(T2400, T0200)>>,
      <<HourDict(T9_5, T1700)>>,
      <<HourDict(PyNone, T0200)>> }

\* the constraints that rules carry as validity and exclusions
RuleConstraints ==
    { TimeConstraint_init(p, w, h).value :
        p \in {<<>>, <<PeriodDict(D20250101, D20250131)>>, <<PeriodDict(<<>>, <<>>)>>},
        w \in {<<>>, <<StrDay(<<"s", "a", "t">>), StrDay(<<"S", "U", "N", "D", "A", "Y">>)>>},
        h \in {<<>>, <<HourDict(T2200, T0200)>>} }

OptionalConstraints == {None} \cup {Some(c) : c \in RuleConstraints}

(***************************************************************************)
(* SpecConstraints: the constraint objects are built from the values of    *)
(* the configuration and asked about times                                 *)
(***************************************************************************)
\* TimeRange(start, end)
NewTimeRange ==
    /\ call = Idle
    /\ \E start \in TimeStrings, end \in TimeStrings :
        call' = [op |-> "TimeRange", start |-> start, end |-> end,
                 out |-> TimeRange_init(start, end)]
    /\ UNCHANGED <<host, run, heap, engine>>

\* TimeRange(start, end).contains(check_time)
TimeRangeContains ==
    /\ call = Idle
    /\ \E start \in TimeStrings, end \in TimeStrings, check_time \in TimesOfDay :
        /\ TimeRange_init(start, end).kind = "value"
        /\ call' = [op |-> "TimeRange.contains", start |-> start, end |-> end,
                    check_time |-> check_time,
                    out |-> TimeRange_contains(TimeRange_init(start, end).value,
                                               check_time)]
    /\ UNCHANGED <<host, run, heap, engine>>

\* DateTimePeriod(start, end)
NewDateTimePeriod ==
    /\ call = Idle
    /\ \E start \in DateStringsOfPeriods, end \in DateStringsOfPeriods :
        call' = [op |-> "DateTimePeriod", start |-> start, end |-> end,
                 out |-> DateTimePeriod_init(start, end)]
    /\ UNCHANGED <<host, run, heap, engine>>

\* DateTimePeriod(start, end).contains(check_datetime)
DateTimePeriodContains ==
    /\ call = Idle
    /\ \E start \in DateStringsOfPeriods, end \in DateStringsOfPeriods,
          check_datetime \in CheckDatetimes :
        /\ DateTimePeriod_init(start, end).kind = "value"
        /\ call' = [op |-> "DateTimePeriod.contains", start |-> start, end |-> end,
                    check_datetime |-> check_datetime,
                    out |-> DateTimePeriod_contains(
                                DateTimePeriod_init(start, end).value, check_datetime)]
    /\ UNCHANGED <<host, run, heap, engine>>

\* TimeConstraint(periods, weekdays, hours)
NewTimeConstraint ==
    /\ call = Idle
    /\ \E periods \in PeriodLists, weekdays \in WeekdayLists, hours \in HourLists :
        call' = [op |-> "TimeConstraint", periods |-> periods, weekdays |-> weekdays,
                 hours |-> hours,
                 out |-> TimeConstraint_init(periods, weekdays, hours)]
    /\ UNCHANGED <<host, run, heap, engine>>

\* TimeConstraint(periods, weekdays, hours).matches(check_datetime)
ConstraintMatched(constraint, check_datetime) ==
    /\ constraint.kind = "value"
    /\ call' = [op |-> "TimeConstraint.matches", constraint |-> constraint.value,
                check_datetime |-> check_datetime,
                out |-> TimeConstraint_matches(constraint.value, check_datetime)]

TimeConstraintMatches ==
    /\ call = Idle
    /\ \E periods \in PeriodLists, weekdays \in WeekdayLists, hours \in HourLists,
          check_datetime \in CheckDatetimes :
        ConstraintMatched(TimeConstraint_init(periods, weekdays, hours), check_datetime)
    /\ UNCHANGED <<host, run, heap, engine>>

\* IgnoreRule(..., validity, exclusions).is_valid_at(check_datetime), for the
\* timestamp of an alarm (None when the event has none)
IsValidAt ==
    /\ call = Idle
    /\ \E validity \in OptionalConstraints, exclusions \in OptionalConstraints,
          check_datetime \in {None} \cup {Some(dt) : dt \in CheckDatetimes} :
        call' = [op |-> "is_valid_at", validity |-> validity, exclusions |-> exclusions,
                 check_datetime |-> check_datetime,
                 out |-> call_is_valid_at(
                             Rule(Disk, <<"*">>, <<>>, PyNone, validity, exclusions),
                             check_datetime)]
    /\ UNCHANGED <<host, run, heap, engine>>

InitConstraints == host \in HostZones /\ call = Idle /\ run = None /\ heap = <<>> /\ engine = None

NextConstraints ==
    \/ NewTimeRange \/ TimeRangeContains
    \/ NewDateTimePeriod \/ DateTimePeriodContains
    \/ NewTimeConstraint \/ TimeConstraintMatches
    \/ IsValidAt

SpecConstraints == InitConstraints /\ [][NextConstraints]_vars

\* what the well-formed strings of TimeStrings say, by the reading HH:MM
HHMM(s) ==
    CASE s = T2200 -> Clock(22, 0, 0)
      [] s = T0200 -> Clock(2, 0, 0)
      [] s = T0900 -> Clock(9, 0, 0)
      [] s = T1700 -> Clock(17, 0, 0)

\* the time of day a is not after b
NotAfter(a, b) == a.s < b.s \/ (a.s = b.s /\ a.us <= b.us)

\* C13: TimeRange(start, end).contains(t) is start <= t <= end when
\* start <= end, and t >= start or t <= end when start > end (the range wraps
\* past midnight); TimeRange('22:00', '02:00') contains 23:30 and 01:00 and does
\* not contain 12:00
C13_TimeRangeWraps ==
    (/\ call.op = "TimeRange.contains"
     /\ {call.start, call.end} \subseteq {T2200, T0200, T0900, T1700}) =>
        /\ call.out <=>
              IF NotAfter(HHMM(call.start), HHMM(call.end))
              THEN /\ NotAfter(HHMM(call.start), call.check_time)
                   /\ NotAfter(call.check_time, HHMM(call.end))
              ELSE \/ NotAfter(HHMM(call.start), call.check_time)
                   \/ NotAfter(call.check_time, HHMM(call.end))
        /\ (call.start = T2200 /\ call.end = T0200) =>
              /\ call.check_time \in {Clock(23, 30, 0), Clock(1, 0, 0)} => call.out
              /\ call.check_time = Clock(12, 0, 0) => ~call.out

\* C13 witness: TimeRange('22:00', '02:00') has said that it contains 01:00
C13_Witness ==
    /\ call.op = "TimeRange.contains"
    /\ call.start = T2200 /\ call.end = T0200
    /\ call.check_time = Clock(1, 0, 0)
    /\ call.out

\* what the well-formed strings of DateStringsOfPeriods say: the day (days since
\* 1970-01-01) and, unless the string is a date only, the time of day
BoundOf(s) ==
    CASE s = D20250101 -> [day |-> 20089, clock |-> None]
      [] s = D20250131 -> [day |-> 20119, clock |-> None]
      [] s = D20250201 -> [day |-> 20120, clock |-> None]
      [] s = D20250131Noon -> [day |-> 20119, clock |-> Some(12 * 3600)]
      [] s = D20250115Morning -> [day |-> 20103, clock |-> Some(8 * 3600 + 30 * 60)]
      [] s = D20250101SpaceDay -> [day |-> 20089, clock |-> None]
      [] s = D20250115Tab -> [day |-> 20103, clock |-> Some(8 * 3600 + 30 * 60)]

\* dt against the bound b: -1 before, 0 at, 1 after; by calendar date for a
\* bound that is a date only
Against(dt, b) ==
    IF dt.date # b.day THEN (IF dt.date < b.day THEN -1 ELSE 1)
    ELSE IF b.clock = None THEN 0
    ELSE IF dt.time # b.clock[1] THEN (IF dt.time < b.clock[1] THEN -1 ELSE 1)
    ELSE IF dt.us > 0 THEN 1 ELSE 0

\* C14: DateTimePeriod(start, end).contains(dt) compares a bound given as a date
\* only by calendar date, so that the whole day of a date-only end is inside;
\* DateTimePeriod('2025-01-01', '2025-01-31') contains 2025-01-15T00:00:00 and
\* every time of 2025-01-31, and does not contain 2025-02-01T00:00:00
C14_DateOnlyBoundsByCalendarDate ==
    call.op = "DateTimePeriod.contains" =>
        /\ call.out <=>
              /\ ~Truthy(call.start)
                 \/ Against(call.check_datetime, BoundOf(call.start)) >= 0
              /\ ~Truthy(call.end)
                 \/ Against(call.check_datetime, BoundOf(call.end)) <= 0
        /\ (call.start = D20250101 /\ call.end = D20250131) =>
              /\ call.check_datetime = DT(2025, 1, 15, 0, 0, 0) => call.out
              /\ call.check_datetime.date = 20119 => call.out
              /\ call.check_datetime = DT(2025, 2, 1, 0, 0, 0) => ~call.out

\* C14 witness: DateTimePeriod('2025-01-01', '2025-01-31') has said that it
\* contains 2025-01-31T23:59:59
C14_Witness ==
    /\ call.op = "DateTimePeriod.contains"
    /\ call.start = D20250101 /\ call.end = D20250131
    /\ call.check_datetime = DT(2025, 1, 31, 23, 59, 59)
    /\ call.out

\* the kinds of condition that the constraint c has
ConfiguredKinds(c) == {k \in {"periods", "weekdays", "hours"} : c[k] # <<>>}

\* some item of kind k of the constraint c matches dt
KindMatches(c, k, dt) ==
    CASE k = "periods" ->
            \E i \in 1..Len(c.periods) : DateTimePeriod_contains(c.periods[i], dt)
      [] k = "weekdays" -> WeekdayOf(dt) \in Range(c.weekdays)
      [] k = "hours" ->
            \E i \in 1..Len(c.hours) : TimeRange_contains(c.hours[i], TimeOf(dt))

\* C11: a constraint without periods, weekdays and hours matches every datetime;
\* any other constraint matches t exactly when every kind it has holds, a kind
\* holding when at least one of its items matches t
C11_AndAcrossKindsOrWithin ==
    call.op = "TimeConstraint.matches" =>
        /\ ConfiguredKinds(call.constraint) = {} => call.out
        /\ call.out <=> \A k \in ConfiguredKinds(call.constraint) :
                            KindMatches(call.constraint, k, call.check_datetime)

\* C11 witness: a constraint with two periods, weekdays and hours has matched a
\* datetime that only its second period contains
C11_Witness ==
    /\ call.op = "TimeConstraint.matches"
    /\ ConfiguredKinds(call.constraint) = {"periods", "weekdays", "hours"}
    /\ Len(call.constraint.periods) = 2
    /\ ~DateTimePeriod_contains(call.constraint.periods[1], call.check_datetime)
    /\ call.out

\* the constraint is there, has conditions and matches dt
ConstraintHolds(constraint, dt) ==
    /\ constraint # None
    /\ ConfiguredKinds(constraint[1]) # {}
    /\ \A k \in ConfiguredKinds(constraint[1]) : KindMatches(constraint[1], k, dt)

\* C12: is_valid_at(t) is true exactly when the validity is absent, empty or
\* matches t, and the exclusions do not (being present and non-empty) match t;
\* a matching exclusion overrides a matching validity
C12_ExclusionOverridesValidity ==
    (call.op = "is_valid_at" /\ call.check_datetime # None) =>
        call.out = Value(/\ \/ call.validity = None
                            \/ ConfiguredKinds(call.validity[1]) = {}
                            \/ ConstraintHolds(call.validity, call.check_datetime[1])
                         /\ ~ConstraintHolds(call.exclusions, call.check_datetime[1]))

\* C12 witness: a rule has been found not valid at a datetime that both its
\* validity and its exclusions match
C12_Witness ==
    /\ call.op = "is_valid_at"
    /\ call.check_datetime # None
    /\ ConstraintHolds(call.validity, call.check_datetime[1])
    /\ ConstraintHolds(call.exclusions, call.check_datetime[1])
    /\ call.out = Value(FALSE)

\* the environments list of the rule is empty or holds the environment
InEnvironment(rule, environment) ==
    rule.environments = <<>> \/ environment \in Range(rule.environments)

\* C15: a rule with an empty environments list applies in every environment; a
\* rule whose non-empty environments list lacks the given environment is
\* skipped: it never causes the message to be ignored and never supplies the
\* ignore reason
C15_RulesScopedByEnvironment ==
    /\ call.op = "should_ignore_message" =>
          call.out <=> \E i \in 1..Len(call.rules) :
                          /\ InEnvironment(call.rules[i], call.environment)
                          /\ rule_matches_message(call.rules[i], call.message,
                                                  call.environment)
    /\ (call.op = "get_ignore_reason" /\ call.decision) =>
          \/ call.out = UnknownReason
          \/ \E i \in 1..Len(call.rules) :
                /\ InEnvironment(call.rules[i], call.environment)
                /\ call.out = RuleReason(call.rules[i])

\* the constraint is absent or has no condition
NoCondition(constraint) == constraint = None \/ ConfiguredKinds(constraint[1]) = {}

\* C16: for an alarm whose timestamp is None, a rule with a non-empty validity
\* or exclusions constraint does not apply, a rule without time constraints is
\* evaluated as usual, and the evaluation does not raise
C16_NoTimestampNeverRaises ==
    (call.op = "is_valid_at" /\ call.check_datetime = None) =>
        call.out = Value(NoCondition(call.validity) /\ NoCondition(call.exclusions))

(***************************************************************************)
(* SpecParsers: an extractor is selected for a product and an environment, *)
(* applied to raw events, and used by analyze_alarms                       *)
(***************************************************************************)
\* events in the alarm format of the SEND and of the INTEROP channels whose ts
\* is missing or is no number
UntimedSendEvents ==
    {SendEvent(7, DiskFull, ts) : ts \in {<<>>, PyNone, NotANumber}}
    \cup {SendFallbackEvent(8, DBTimeout, ts) : ts \in {<<>>, NotANumber}}
    \cup {SendEventWithoutTs(7, DiskFull)}
UntimedInteropEvents ==
    {InteropEvent(9, DiskFull, ts) : ts \in {<<>>, NotANumber}}
    \cup {[files |-> <<[name |-> SubSeq(AlarmLit, 3, Len(AlarmLit)) \o DiskFull \o InLit \o eu]>>]}

ParserEvents == Events \cup UntimedSendEvents \cup UntimedInteropEvents

\* product and environment names
OtherProduct == <<"O", "T", "H", "E", "R">>
send == <<"s", "e", "n", "d">>
dev == <<"d", "e", "v">>
PROD == <<"P", "R", "O", "D">>
ProductNames == {SEND, INTEROP, OtherProduct, send}
EnvironmentNames == {prod, uat, test, dev, PROD}

\* the events of the batches given to an extractor
ParserBatchEvents ==
    { SendEvent(42, DBTimeout, Str(1735689600)),
      SendEvent(7, DiskFull, <<>>),
      SendEvent(7, DiskFull, NotANumber),
      SendEventWithoutTs(7, DiskFull),
      InteropEvent(9, DiskFull, <<>>),
      NoiseEvent(Str(1735689600)) }

\* slack_parser.extract_alarm_info(message), for the parser of each class
ExtractAlarmInfo ==
    /\ call = Idle
    /\ \E key \in ParserMap, message \in ParserEvents,
          oncall_config \in {None, Some([channel_id |-> Channel2, pattern |-> <<"o", "c">>])} :
        call' = [op |-> "extract_alarm_info", key |-> key, message |-> message,
                 oncall_config |-> oncall_config,
                 out |-> extract_alarm_info(key, host, oncall_config, message)]
    /\ UNCHANGED <<host, run, heap, engine>>

\* SlackMessageParserProvider().get_parser(product, environment)
GetParser ==
    /\ call = Idle
    /\ \E product \in ProductNames, environment \in EnvironmentNames :
        call' = [op |-> "get_parser", product |-> product, environment |-> environment,
                 out |-> get_parser(product, environment)]
    /\ UNCHANGED <<host, run, heap, engine>>

\* analyze_alarms(messages, alarm_type, product_config) for the alarm types of
\* a product in an environment that has a channel
AnalyzeWithParser ==
    /\ call = Idle
    /\ \E messages \in SeqsUpTo(ParserBatchEvents, MaxBatch),
          product \in ProductNames, environment \in EnvironmentNames :
        LET product_config ==
                ProductConfig(product, [e \in {environment} |-> Channel1], <<>>, None)
        IN  \E alarm_type \in Range(build_alarm_types(product_config, product,
                                                      environment).value) :
                call' = [op |-> "analyze_alarms", messages |-> messages,
                         alarm_type |-> alarm_type, product_config |-> product_config,
                         out |-> analyze_alarms(host, messages, alarm_type, product_config)]
    /\ UNCHANGED <<host, run, heap, engine>>

InitParsers == host \in HostZones /\ call = Idle /\ run = None /\ heap = <<>> /\ engine = None

NextParsers == ExtractAlarmInfo \/ GetParser \/ AnalyzeWithParser

SpecParsers == InitParsers /\ [][NextParsers]_vars

\* the events of the alarm format of the parser class key whose ts is missing or
\* is no number
Untimed(key) == IF key[1] = SEND THEN UntimedSendEvents ELSE UntimedInteropEvents

\* C17: extraction of an event that matches the alarm format and whose ts is
\* missing or cannot be parsed returns a record whose timestamp is None and does
\* not raise; the analysis of a batch that holds such an event returns a result
C17_UntimedEventExtracted ==
    /\ (call.op = "extract_alarm_info" /\ call.message \in Untimed(call.key)) =>
          /\ call.out.kind = "value"
          /\ call.out.value # None
          /\ call.out.value[1].timestamp = None
    /\ (/\ call.op = "analyze_alarms"
        /\ get_parser(call.alarm_type.product, call.alarm_type.environment) # None
        /\ \E i \in 1..Len(call.messages) : call.messages[i] \in UntimedSendEvents) =>
          call.out.kind = "value"

\* the number of alarm types of the category among types
CountOf(types, category) ==
    Cardinality({i \in 1..Len(types) : types[i].category = category})

\* C18: for every product configuration and environment build_alarm_types
\* returns (without raising) exactly one 'normal' type, and exactly one 'oncall'
\* type if the environment is 'prod' and an on-call pattern is configured, none
\* otherwise
C18_OneNormalTypeAlways ==
    call.op = "build_alarm_types" =>
        /\ call.out.kind = "value"
        /\ CountOf(call.out.value, "normal") = 1
        /\ CountOf(call.out.value, "oncall") =
              IF call.environment = prod /\ call.product_config.oncall_config # None
              THEN 1 ELSE 0

\* the (product, environment) pairs that have an extractor of their own
Registered == {<<SEND, prod>>, <<SEND, uat>>, <<INTEROP, prod>>, <<INTEROP, test>>}

\* the extractor the claim selects for names written as the registry writes them
Selected(product, environment) ==
    IF <<product, environment>> \in Registered THEN Some(<<product, environment>>)
    ELSE IF <<product, prod>> \in Registered THEN Some(<<product, prod>>)
    ELSE None

\* C19: the extractor selected for (product, environment) is the one registered
\* for exactly that pair, otherwise the 'prod' extractor of the same product,
\* otherwise none; without an extractor analyze_alarms fails with a
\* configuration error whatever the batch holds, and returns no result
C19_ExactThenProdThenNone ==
    /\ (/\ call.op = "get_parser"
        /\ call.product \in {SEND, INTEROP, OtherProduct}
        /\ call.environment \in {prod, uat, test, dev}) =>
          call.out = Selected(call.product, call.environment)
    /\ (/\ call.op = "analyze_alarms"
        /\ call.alarm_type.product \in {SEND, INTEROP, OtherProduct}
        /\ call.alarm_type.environment \in {prod, uat, test, dev}
        /\ Selected(call.alarm_type.product, call.alarm_type.environment) = None) =>
          call.out = Raise("ValueError")

\* C19 witness: the analysis for a product without extractor has failed with
\* the configuration error on a batch whose first event is an alarm with a
\* timestamp
C19_Witness ==
    /\ call.op = "analyze_alarms"
    /\ call.alarm_type.product = OtherProduct
    /\ call.alarm_type.environment = dev
    /\ call.messages # <<>>
    /\ call.messages[1] = SendEvent(42, DBTimeout, Str(1735689600))
    /\ call.out = Raise("ValueError")

\* the strings of TimeStrings that are not in HH:MM form, and the strings of
\* DateStringsOfPeriods that are no date and no date with a time
MalformedTimes == {T2400, T0100NoColon, T10pm}
MalformedDates == {D20250230, DSlashes}

\* the instant a well-formed bound names, a date being its midnight
InstantOf(b) == b.day * 86400 + (IF b.clock = None THEN 0 ELSE b.clock[1])

\* a period definition with an unparseable bound, or with start after end
MalformedPeriod(start, end) ==
    \/ start \in MalformedDates
    \/ end \in MalformedDates
    \/ /\ Truthy(start) /\ Truthy(end)
       /\ InstantOf(BoundOf(start)) > InstantOf(BoundOf(end))

\* a weekday that is a number outside 0..6 or a name that is no weekday
MalformedDay(day) ==
    \/ day.type = "int" /\ day.number \notin 0..6
    \/ day.type = "str" /\ day.name = <<"f", "u", "n", "d", "a", "y">>

\* an hours entry with a bound that is not in HH:MM form
MalformedHours(hour_dict) ==
    \/ "start" \in DOMAIN hour_dict /\ hour_dict.start \in MalformedTimes
    \/ "end" \in DOMAIN hour_dict /\ hour_dict.end \in MalformedTimes

\* C20: a malformed time-constraint definition is rejected at construction: a
\* period with start after end or with an unparseable bound, a weekday name that
\* is not known or a weekday number outside 0..6, and an hour bound that is not
\* in HH:MM form each raise an error, and no constraint object is produced
C20_MalformedDefinitionRejected ==
    /\ (call.op = "DateTimePeriod" /\ MalformedPeriod(call.start, call.end)) =>
          call.out.kind = "raise"
    /\ (call.op = "TimeRange" /\ {call.start, call.end} \cap MalformedTimes # {}) =>
          call.out.kind = "raise"
    /\ (/\ call.op = "TimeConstraint"
        /\ \/ \E i \in 1..Len(call.periods) :
                 /\ call.periods[i].type = "dict"
                 /\ MalformedPeriod(Get(call.periods[i], "start", PyNone),
                                    Get(call.periods[i], "end", PyNone))
           \/ \E i \in 1..Len(call.weekdays) : MalformedDay(call.weekdays[i])
           \/ \E i \in 1..Len(call.hours) : MalformedHours(call.hours[i])) =>
          call.out.kind = "raise"

(***************************************************************************)
(* config/ignore_rule_parser.py: the rule engine as an object.  A list is  *)
(* an object of the heap, a reference to it is its address; assigning a    *)
(* list copies the reference, not the items                                *)
(***************************************************************************)
\* IgnoreRule(pattern, path, environments, reason): no validity, no exclusions;
\* environments is the list given, [] for None
NewIgnoreRule(pattern, path, environments, reason) ==
    Rule(pattern, path, environments, reason, None, None)

AWSNotificationMessage ==
    <<"A", "W", "S", " ", "N", "o", "t", "i", "f", "i", "c", "a", "t", "i", "o", "n",
      " ", "M", "e", "s", "s", "a", "g", "e">>

\* the rules of an engine constructed without a list
DefaultRules == <<NewIgnoreRule(AWSNotificationMessage, <<"files", "name">>, <<>>, PyNone)>>

\* IgnoreRuleParser.__init__(ignore_rules) on the heap h, for None or a list
\* given by reference: the heap it leaves and the address of self.ignore_rules,
\* which is the list given or, for None, a new list of the default rules
IgnoreRuleParser_init(h, ignore_rules) ==
    IF ignore_rules # None THEN [heap |-> h, ignore_rules |-> ignore_rules[1]]
    ELSE [heap |-> Append(h, DefaultRules), ignore_rules |-> Len(h) + 1]

\* IgnoreRuleParser.add_ignore_rule on the engine whose list is at self: the heap
\* it leaves.  A rule with a truthy pattern that is not yet in the list is
\* appended to the list in place; IgnoreRule.__eq__ compares the six fields
\* with ==, so that the reasons None and '' differ
add_ignore_rule(h, self, pattern, path, environments, reason) ==
    IF Truthy(pattern)
       /\ NewIgnoreRule(pattern, path, environments, reason) \notin Range(h[self])
    THEN [h EXCEPT ![self] = Append(@, NewIgnoreRule(pattern, path, environments, reason))]
    ELSE h

\* list.remove(x): the list without its first item equal to x
ListRemove(items, x) ==
    LET k == CHOOSE i \in 1..Len(items) :
                 items[i] = x /\ \A j \in 1..(i - 1) : items[j] # x
    IN  SubSeq(items, 1, k - 1) \o SubSeq(items, k + 1, Len(items))

\* IgnoreRuleParser.remove_ignore_rule on the engine whose list is at self: the
\* heap it leaves.  The first rule with this pattern and path is removed from
\* the list in place
remove_ignore_rule(h, self, pattern, path) ==
    LET found == {i \in 1..Len(h[self]) :
                     h[self][i].pattern = pattern /\ h[self][i].path = path}
    IN  IF found = {} THEN h
        ELSE [h EXCEPT ![self] =
                 ListRemove(@, h[self][CHOOSE i \in found : \A k \in found : i <= k])]

(***************************************************************************)
(* SpecEngine: a rule engine is constructed from the ignore_rules list of  *)
(* a product configuration and used                                        *)
(***************************************************************************)
\* the address of product_config.ignore_rules
ConfigRules == 1

\* the longest list of rules an engine is grown to
MaxEngineRules == 3

\* the rule lists of the product configurations
EngineRulePool ==
    { Rule(Disk, <<"*">>, <<>>, PyNone, None, None),
      Rule(disk, <<"attachments", "title">>, <<uat>>, <<"u">>, None, None),
      Rule(Timeout, <<"attachments", "title", "alarm_name">>, <<>>, <<"w">>,
           Some(Weekend), None) }

EngineEvents ==
    { SendEvent(42, DBTimeout, Str(1735689600)), SendEvent(7, DiskFull, <<>>),
      [files |-> <<[name |-> AWSNotificationMessage]>>, ts |-> Str(1735689600)] }

\* IgnoreRuleParser(product_config.ignore_rules), and IgnoreRuleParser()
NewIgnoreRuleParser ==
    /\ engine = None
    /\ \E ignore_rules \in {None, Some(ConfigRules)} :
        /\ engine' = Some(IgnoreRuleParser_init(heap, ignore_rules).ignore_rules)
        /\ heap' = IgnoreRuleParser_init(heap, ignore_rules).heap
        /\ call' = [op |-> "IgnoreRuleParser", ignore_rules |-> ignore_rules]
    /\ UNCHANGED <<host, run>>

\* engine.should_ignore_message(message, environment)
EngineShouldIgnoreMessage ==
    /\ engine # None
    /\ \E message \in EngineEvents, environment \in {prod, uat} :
        call' = [op |-> "should_ignore_message", message |-> message,
                 environment |-> environment,
                 out |-> should_ignore_message(heap[engine[1]], message, environment)]
    /\ UNCHANGED <<host, run, heap, engine>>

\* engine.get_ignore_reason(message)
EngineGetIgnoreReason ==
    /\ engine # None
    /\ \E message \in EngineEvents :
        call' = [op |-> "get_ignore_reason", message |-> message,
                 out |-> get_ignore_reason(heap[engine[1]], message)]
    /\ UNCHANGED <<host, run, heap, engine>>

\* engine.add_ignore_rule(pattern, path, environments, reason)
AddIgnoreRule ==
    /\ engine # None
    /\ Len(heap[engine[1]]) < MaxEngineRules
    /\ \E pattern \in {Disk, <<>>, PyNone},
          path \in {<<"*">>, <<"attachments", "title">>}, reason \in {PyNone, <<>>, <<"u">>} :
        /\ heap' = add_ignore_rule(heap, engine[1], pattern, path, <<>>, reason)
        /\ call' = [op |-> "add_ignore_rule", pattern |-> pattern, path |-> path,
                    reason |-> reason]
    /\ UNCHANGED <<host, run, engine>>

\* engine.remove_ignore_rule(pattern, path)
RemoveIgnoreRule ==
    /\ engine # None
    /\ \E pattern \in {Disk, disk, Timeout},
          path \in {<<"*">>, <<"attachments", "title">>} :
        /\ heap' = remove_ignore_rule(heap, engine[1], pattern, path)
        /\ call' = [op |-> "remove_ignore_rule", pattern |-> pattern, path |-> path]
    /\ UNCHANGED <<host, run, engine>>

\* analyze_alarms(messages, alarm_type, product_config): it reads the list of
\* the configuration and builds an engine of its own on it
AnalyzeAlarmsOfConfig ==
    /\ \E messages \in SeqsUpTo(EngineEvents, 1) :
        LET product_config ==
                ProductConfig(SEND, [e \in {prod} |-> Channel1], heap[ConfigRules], None)
        IN  \E alarm_type \in Range(build_alarm_types(product_config, SEND, prod).value) :
                call' = [op |-> "analyze_alarms", messages |-> messages,
                         alarm_type |-> alarm_type, product_config |-> product_config,
                         out |-> analyze_alarms(host, messages, alarm_type, product_config)]
    /\ UNCHANGED <<host, run, heap, engine>>

InitEngine ==
    /\ host = "UTC"
    /\ call = Idle
    /\ run = None
    /\ heap \in {<<rules>> : rules \in SeqsUpTo(EngineRulePool, MaxRules)}
    /\ engine = None

NextEngine ==
    \/ NewIgnoreRuleParser
    \/ EngineShouldIgnoreMessage
    \/ EngineGetIgnoreReason
    \/ AddIgnoreRule
    \/ RemoveIgnoreRule
    \/ AnalyzeAlarmsOfConfig

SpecEngine == InitEngine /\ [][NextEngine]_vars

\* C21: no operation on the rule engine constructed from a product's rule list
\* (should_ignore_message, get_ignore_reason, add_ignore_rule,
\* remove_ignore_rule) and no analyze_alarms run changes the ignore_rules list of
\* the product configuration: it keeps the same rules in the same order
C21_ConfigurationNotMutated ==
    [][heap'[ConfigRules] = heap[ConfigRules]]_vars

(***************************************************************************)
(* alarm_analysis_result.py on the heap: a result object, its alarm_stats  *)
(* dict, each bucket of the dict and its ignored_messages list are objects *)
(* of the heap; a dict is the list of its items, each the name and the     *)
(* address of the bucket                                                   *)
(***************************************************************************)
\* the objects of the result: its buckets, its dict, its list of ignored
\* messages and the result itself, when the first of them is put at base + 1
ObjectsOf(result, base) ==
    [i \in 1..Len(result.alarm_stats) |-> result.alarm_stats[i].entries]
    \o << [i \in 1..Len(result.alarm_stats) |->
              [name |-> result.alarm_stats[i].name, entries |-> base + i]],
          result.ignored_messages,
          [result EXCEPT !.alarm_stats = base + Len(result.alarm_stats) + 1,
                         !.ignored_messages = base + Len(result.alarm_stats) + 2] >>

\* the heap with the objects of each result added
RECURSIVE StoreAll(_, _)
StoreAll(h, results) ==
    IF results = <<>> THEN h
    ELSE StoreAll(h \o ObjectsOf(Head(results), Len(h)), Tail(results))

\* the addresses at which StoreAll puts the result objects, from base on
RECURSIVE AddressesOf(_, _)
AddressesOf(results, base) ==
    IF results = <<>> THEN <<>>
    ELSE <<base + Len(Head(results).alarm_stats) + 3>>
         \o AddressesOf(Tail(results), base + Len(Head(results).alarm_stats) + 3)

\* the result at an address, with its dict, buckets and list read from the heap
Load(h, result) ==
    [h[result] EXCEPT
        !.alarm_stats = [i \in 1..Len(h[h[result].alarm_stats]) |->
                            [name |-> h[h[result].alarm_stats][i].name,
                             entries |-> h[h[h[result].alarm_stats][i].entries]]],
        !.ignored_messages = h[h[result].ignored_messages]]

\* merged = AlarmAnalysisResult(): a new dict, a new list and the new object,
\* which is at Len(h) + 3
NewResult(h) ==
    h \o << <<>>, <<>>,
            [EmptyResult EXCEPT !.alarm_stats = Len(h) + 1,
                                !.ignored_messages = Len(h) + 2] >>

\* the address of the bucket of alarm_name in the dict at stats
BucketOf(h, stats, alarm_name) ==
    h[stats][CHOOSE i \in 1..Len(h[stats]) : h[stats][i].name = alarm_name].entries

\* BucketFor binding the list of the input to the name, not a new list
BucketForAliased(h, stats, alarm_name, alarm_entries) ==
    IF \E i \in 1..Len(h[stats]) : h[stats][i].name = alarm_name THEN h
    ELSE [h EXCEPT ![stats] = Append(@, [name |-> alarm_name, entries |-> alarm_entries])]

\* if alarm_name not in merged.alarm_stats: merged.alarm_stats[alarm_name] = [],
\* for the dict at stats: the new list is a new object
BucketFor(h, stats, alarm_name, alarm_entries) ==
    IF \E i \in 1..Len(h[stats]) : h[stats][i].name = alarm_name THEN h
    ELSE [Append(h, <<>>) EXCEPT
             ![stats] = Append(@, [name |-> alarm_name, entries |-> Len(h) + 1])]

\* merged.alarm_stats[alarm_name].extend(alarm_entries)
ExtendBucket(h, stats, alarm_name, alarm_entries) ==
    [h EXCEPT ![BucketOf(h, stats, alarm_name)] = @ \o h[alarm_entries]]

\* the loop over result.alarm_stats.items() from item k on, for the dict of the
\* merged result at stats and the dict of the input at items
RECURSIVE MergeStatsAt(_, _, _, _)
MergeStatsAt(h, stats, items, k) ==
    IF k > Len(h[items]) THEN h
    ELSE MergeStatsAt(
             ExtendBucket(BucketFor(h, stats, h[items][k].name, h[items][k].entries),
                          stats, h[items][k].name, h[items][k].entries),
             stats, items, k + 1)

\* the five sums of an iteration, written to the merged object
SumCounters(h, merged, result) ==
    [h EXCEPT ![merged] =
        [@ EXCEPT !.total_alarms = @ + h[result].total_alarms,
                  !.analyzable_alarms = @ + h[result].analyzable_alarms,
                  !.ignored_alarms = @ + h[result].ignored_alarms,
                  !.oncall_total = @ + h[result].oncall_total,
                  !.oncall_in_reperibilita = @ + h[result].oncall_in_reperibilita]]

\* merged.ignored_messages.extend(result.ignored_messages)
ExtendIgnored(h, merged, result) ==
    [h EXCEPT ![h[merged].ignored_messages] = @ \o h[h[result].ignored_messages]]

\* one iteration of the loop of merge_analysis_results on the heap
MergeOneAt(h, merged, result) ==
    ExtendIgnored(
        SumCounters(MergeStatsAt(h, h[merged].alarm_stats, h[result].alarm_stats, 1),
                    merged, result),
        merged, result)

\* the loop of merge_analysis_results over the results (addresses)
RECURSIVE MergeFromAt(_, _, _)
MergeFromAt(h, merged, results) ==
    IF results = <<>> THEN h
    ELSE MergeFromAt(MergeOneAt(h, merged, Head(results)), merged, Tail(results))

\* merge_analysis_results(results) on the heap h: the heap it leaves; the merged
\* result is at Len(h) + 3
merge_analysis_results_at(h, results) == MergeFromAt(NewResult(h), Len(h) + 3, results)

(***************************************************************************)
(* SpecMerge: results are merged, and the caller appends to the lists of   *)
(* the merged result                                                       *)
(***************************************************************************)
\* the most results kept by the caller
MaxInputs == 2

\* the most items the caller appends to the lists of the merged result
MaxAppended == 2

\* merge_analysis_results(results) for results the caller holds
MergeResults ==
    /\ call = Idle
    /\ \E results \in SeqsUpTo(Range(run[1].inputs), MaxResults) :
        /\ heap' = merge_analysis_results_at(heap, results)
        /\ call' = [op |-> "merge_analysis_results", results |-> results,
                    before |-> [i \in 1..Len(results) |-> Load(heap, results[i])],
                    merged |-> Len(heap) + 3]
    /\ UNCHANGED <<host, run, engine>>

\* merged.alarm_stats[name].append(entry) by the caller
AppendToMergedBucket ==
    /\ call # Idle
    /\ run[1].appended < MaxAppended
    /\ \E i \in 1..Len(heap[heap[call.merged].alarm_stats]) :
        heap' = [heap EXCEPT ![heap[heap[call.merged].alarm_stats][i].entries] =
                    Append(@, Info(ExampleBatch[5]))]
    /\ run' = Some([run[1] EXCEPT !.appended = @ + 1, !.to_bucket = TRUE])
    /\ UNCHANGED <<host, call, engine>>

\* merged.ignored_messages.append(info) by the caller
AppendToMergedIgnored ==
    /\ call # Idle
    /\ run[1].appended < MaxAppended
    /\ heap' = [heap EXCEPT ![heap[call.merged].ignored_messages] =
                   Append(@, IgnoredInfo(Info(ExampleBatch[3]), ExampleBatch[3], <<"w">>))]
    /\ run' = Some([run[1] EXCEPT !.appended = @ + 1, !.to_ignored = TRUE])
    /\ UNCHANGED <<host, call, engine>>

InitMerge ==
    /\ host = "UTC"
    /\ call = Idle
    /\ engine = None
    /\ \E results \in SeqsUpTo(ResultPool, MaxInputs) :
        /\ heap = StoreAll(<<>>, results)
        /\ run = Some([inputs |-> AddressesOf(results, 0), appended |-> 0,
                       to_bucket |-> FALSE, to_ignored |-> FALSE])

NextMerge == MergeResults \/ AppendToMergedBucket \/ AppendToMergedIgnored

SpecMerge == InitMerge /\ [][NextMerge]_vars

\* C22: merge_analysis_results leaves every input result as it was (the buckets
\* of alarm_stats, ignored_messages and the counters), and appending to a bucket
\* or to ignored_messages of the merged result afterwards changes no input
C22_MergeLeavesInputsUnchanged ==
    call # Idle =>
        \A i \in 1..Len(call.results) : Load(heap, call.results[i]) = call.before[i]

\* C22 witness: two results with a bucket of the same name and with ignored
\* messages were merged, and the caller has appended to a bucket and to the
\* ignored messages of the merged result
C22_Witness ==
    /\ call # Idle
    /\ Len(call.results) >= 2
    /\ \E i \in 1..Len(call.results), j \in 1..Len(call.results) :
          /\ call.results[i] # call.results[j]
          /\ call.before[i].ignored_messages # <<>>
          /\ \E a \in 1..Len(call.before[i].alarm_stats),
                b \in 1..Len(call.before[j].alarm_stats) :
                call.before[i].alarm_stats[a].name = call.before[j].alarm_stats[b].name
    /\ run[1].to_bucket
    /\ run[1].to_ignored

(***************************************************************************)
(* SpecOncall: the timestamp of a raw event is parsed on the host and the  *)
(* alarm classified as raised in or out of business hours                  *)
(***************************************************************************)
\* parse_slack_ts(ts) of a raw event
ParseSlackTs ==
    /\ call = Idle
    /\ \E clock \in OncallClock :
        call' = [op |-> "parse_slack_ts", clock |-> clock,
                 out |-> parse_slack_ts(host, Str(clock.u))]
    /\ UNCHANGED <<host, run, heap, engine>>

\* is_oncall_in_reperibilita(parse_slack_ts(ts)), as analyze_alarms classifies an
\* on-call alarm
ClassifiedAt(clock, alarm_timestamp) ==
    call' = [op |-> "classify", clock |-> clock, alarm_timestamp |-> alarm_timestamp,
             out |-> is_oncall_in_reperibilita(host, Some(alarm_timestamp))]

ClassifySlackTs ==
    /\ call = Idle
    /\ \E clock \in OncallClock :
        ClassifiedAt(clock, parse_slack_ts(host, Str(clock.u)).value)
    /\ UNCHANGED <<host, run, heap, engine>>

\* is_oncall_in_reperibilita of the aware datetime of the instant
ClassifyAware ==
    /\ call = Idle
    /\ \E clock \in OncallClock, tzinfo \in {"UTC", "Europe/Rome"} :
        call' = [op |-> "classify", clock |-> clock,
                 alarm_timestamp |-> [instant |-> clock.u, tzinfo |-> tzinfo],
                 out |-> is_oncall_in_reperibilita(
                             host, Some([instant |-> clock.u, tzinfo |-> tzinfo]))]
    /\ UNCHANGED <<host, run, heap, engine>>

InitOncall ==
    /\ host \in OncallHostZones
    /\ call = Idle
    /\ run = None
    /\ heap = <<>>
    /\ engine = None

NextOncall == ParseSlackTs \/ ClassifySlackTs \/ ClassifyAware

SpecOncall == InitOncall /\ [][NextOncall]_vars

\* C23: the classification of an on-call alarm depends on the instant only: for
\* the naive datetime of the host as for an aware one, whatever the zone of the
\* host, it is the one of the wall-clock hour of Europe/Rome at that instant
\* (in reperibilita iff hour < 9 or hour >= 18), also next to a change of offset
\* of Europe/Rome or of the host's zone
C23_ClassifiedByInstant ==
    call.op = "classify" =>
        /\ call.out.kind = "value"
        /\ call.out.value <=> (call.clock.hour < OFFICE_HOURS_START
                               \/ call.clock.hour >= OFFICE_HOURS_END)

\* C23 witness: on a host in Australia/Sydney the naive datetime 02:30 of the
\* night the clocks go back there is classified once as in business hours (17:30
\* in Rome) and, an hour later, once as out of them (18:30 in Rome)
C23_Witness ==
    /\ call.op = "classify"
    /\ host = "Australia/Sydney"
    /\ call.alarm_timestamp = [DT(2025, 4, 6, 2, 30, 0) EXCEPT !.fold = 1]
    /\ call.clock.hour = 18
    /\ call.out = Value(TRUE)

(***************************************************************************)
(* SpecPaths: one rule is matched against one raw event, by its path       *)
(***************************************************************************)
\* the strings the fields of the events hold
Di == <<"D", "i">>
dIx == <<"d", "I", "x">>
ok == <<"o", "k">>

\* the attachments and the files of the events
PathAttachments ==
    { [title |-> Di, fallback |-> <<>>, text |-> <<>>],
      [title |-> ok, fallback |-> dIx, text |-> <<>>],
      [title |-> <<>>, fallback |-> ok, text |-> Di],
      [title |-> ok, fallback |-> ok, text |-> ok] }

PathFiles ==
    { [name |-> dIx, id |-> ok, plain_text |-> <<>>],
      [name |-> ok, id |-> Di, plain_text |-> Di],
      [name |-> <<>>, id |-> <<>>, plain_text |-> ok] }

\* the most attachments and the most files of an event
MaxAttachments == 2
MaxFiles == 1

PathEvents ==
    { [text |-> text, attachments |-> attachments, files |-> files, ts |-> None] :
        text \in {<<>>, Di, ok},
        attachments \in SeqsUpTo(PathAttachments, MaxAttachments),
        files \in SeqsUpTo(PathFiles, MaxFiles) }

\* the patterns and the paths of the rules
PathPatterns == {<<>>, <<"d", "i">>, <<"D", "I", "X">>, <<"k">>, <<"z">>}

Paths ==
    { <<"*">>, <<"text">>, <<"attachments", "title">>, <<"attachments", "fallback">>,
      <<"attachments", "text">>, <<"attachments", "color">>, <<"files", "name">>,
      <<"files", "plain_text">>, <<"files", "id">> }

\* engine._rule_matches_message(rule, message, environment) for a rule of every
\* environment
RuleMatchesMessage ==
    /\ call = Idle
    /\ \E pattern \in PathPatterns, path \in Paths, message \in PathEvents,
          environment \in {None, prod} :
        call' = [op |-> "rule_matches_message", pattern |-> pattern, path |-> path,
                 message |-> message, environment |-> environment,
                 out |-> rule_matches_message(Rule(pattern, path, <<>>, PyNone, None, None),
                                              message, environment)]
    /\ UNCHANGED <<host, run, heap, engine>>

InitPaths == host = "UTC" /\ call = Idle /\ run = None /\ heap = <<>> /\ engine = None

NextPaths == RuleMatchesMessage

SpecPaths == InitPaths /\ [][NextPaths]_vars

\* text contains pattern (not empty) whatever the case of the letters: some
\* piece of text is pattern letter by letter
ContainsIgnoringCase(text, pattern) ==
    /\ pattern # <<>>
    /\ \E i \in 1..Len(text), j \in 1..Len(text) :
          /\ j - i + 1 = Len(pattern)
          /\ \A k \in 1..Len(pattern) : LowerChar(text[i + k - 1]) = LowerChar(pattern[k])

\* the field of some item of the list contains the pattern
SomeItemContains(items, field, pattern) ==
    \E i \in 1..Len(items) :
        field \in DOMAIN items[i] /\ ContainsIgnoringCase(items[i][field], pattern)

\* C24: a rule with path 'attachments.<field>' (resp. 'files.<field>') matches
\* an event iff that field of at least one attachment (resp. file) contains the
\* pattern whatever the case, so not when the pattern is in other fields only; a
\* rule with path '*' matches iff the pattern is in the text of the message, in
\* the title, fallback or text of some attachment or in the name or plain_text
\* of some file; an empty pattern matches nothing
C24_MatchedByPath ==
    call.op = "rule_matches_message" =>
        /\ (Len(call.path) = 2 /\ call.path[1] = "attachments") =>
              (call.out <=>
                  SomeItemContains(call.message.attachments, call.path[2], call.pattern))
        /\ (Len(call.path) = 2 /\ call.path[1] = "files") =>
              (call.out <=> SomeItemContains(call.message.files, call.path[2], call.pattern))
        /\ call.path = <<"*">> =>
              (call.out <=>
                  \/ ContainsIgnoringCase(call.message.text, call.pattern)
                  \/ \E field \in {"title", "fallback", "text"} :
                        SomeItemContains(call.message.attachments, field, call.pattern)
                  \/ \E field \in {"name", "plain_text"} :
                        SomeItemContains(call.message.files, field, call.pattern))
        /\ call.pattern = <<>> => ~call.out

\* C24 witness: the rule 'DIX' on 'attachments.fallback' has matched an event
\* whose second attachment holds 'dIx' in its fallback, and the rule 'k' on
\* 'attachments.color' would not
C24_Witness ==
    /\ call.op = "rule_matches_message"
    /\ call.path = <<"attachments", "fallback">>
    /\ call.pattern = <<"D", "I", "X">>
    /\ Len(call.message.attachments) = 2
    /\ call.message.attachments[2].fallback = dIx
    /\ call.message.attachments[1].fallback # dIx
    /\ call.out
    /\ ~rule_matches_message(Rule(<<"k">>, <<"attachments", "color">>, <<>>, PyNone, None, None),
                             call.message, call.environment)

(***************************************************************************)
(* SpecClassify: a raw event is extracted and its record offered to each   *)
(* alarm type built for the product and the environment                    *)
(***************************************************************************)
\* an INTEROP event whose first file has the name given as it is
InteropFileEvent(name, ts) ==
    [text |-> <<>>, attachments |-> <<>>,
     files |-> <<[name |-> name, id |-> <<"F", "1">>, plain_text |-> Disk]>>,
     ts |-> ts]

\* the raw events classified
ClassifyEvents ==
    { SendEvent(42, DBTimeout, Str(1735689600)),
      SendEvent(45, OcApi, Str(1752786000)),
      SendEvent(46, ApiOc, None),
      NoiseEvent(Str(1735689600)),
      InteropEvent(9, DiskFull, Str(1736600400)),
      InteropFileEvent(OcApi, None),
      InteropFileEvent(<<>>, Str(1736600400)) }

\* the loop body of analyze_alarms up to the filter by type, for each of the
\* types the caller builds: alarm_info = slack_parser.extract_alarm_info(message),
\* then alarm_type.matches_alarm_name(alarm_info['name'])
Classified(message, product_config, environment, built, alarm_info) ==
    /\ built.kind = "value"
    /\ alarm_info.kind = "value"
    /\ alarm_info.value # None
    /\ call' = [op |-> "classify_extracted", message |-> message,
                product_config |-> product_config, environment |-> environment,
                alarm_info |-> alarm_info.value[1], types |-> built.value,
                out |-> [i \in 1..Len(built.value) |->
                            matches_alarm_name(built.value[i], alarm_info.value[1].name)]]

ClassifyExtracted ==
    /\ call = Idle
    /\ \E message \in ClassifyEvents, product \in {SEND, INTEROP},
          environments \in EnvironmentMaps, oncall_config \in OncallConfigs,
          environment \in {prod, uat} :
        Classified(message, ProductConfig(product, environments, <<>>, oncall_config),
                   environment,
                   build_alarm_types(
                       ProductConfig(product, environments, <<>>, oncall_config),
                       product, environment),
                   extract_alarm_info(get_parser(product, environment)[1], host,
                                      oncall_config, message))
    /\ UNCHANGED <<host, run, heap, engine>>

InitClassify ==
    host \in HostZones /\ call = Idle /\ run = None /\ heap = <<>> /\ engine = None

NextClassify == ClassifyExtracted

SpecClassify == InitClassify /\ [][NextClassify]_vars

\* C25: no extracted alarm is dropped from all counts: for every product
\* configuration and every environment it configures, the record extraction
\* produces, a record with an empty name included, is matched by at least one of
\* the alarm types built
C25_EveryRecordMatchedByAType ==
    (call.op = "classify_extracted" /\ call.types # <<>>) =>
        \E i \in 1..Len(call.types) : call.out[i]

(***************************************************************************)
(* The on-call counters of a result                                        *)
(***************************************************************************)
\* 0 <= oncall_in_reperibilita <= oncall_total <= total_alarms
OncallCountersOrdered(result) ==
    /\ 0 <= result.oncall_in_reperibilita
    /\ result.oncall_in_reperibilita <= result.oncall_total
    /\ result.oncall_total <= result.total_alarms

\* the on-call counters of the result out, for the events counted
OncallCountersOfCounted(out, alarm_type, counted) ==
    LET Timed(m) == Truthy(Get(m, "ts", PyNone))
    IN  /\ out.kind = "value"
        /\ OncallCountersOrdered(out.value)
        /\ is_oncall(alarm_type) =>
              /\ out.value.oncall_total = Len(counted)
              /\ out.value.oncall_total = out.value.total_alarms
              /\ out.value.oncall_in_reperibilita <= Len(SelectSeq(counted, Timed))
        /\ ~is_oncall(alarm_type) =>
              /\ out.value.oncall_total = 0
              /\ out.value.oncall_in_reperibilita = 0

\* C26: the on-call counters of every result are consistent: analyze_alarms
\* returns a result with 0 <= oncall_in_reperibilita <= oncall_total <=
\* total_alarms; for an on-call type oncall_total is total_alarms, the number of
\* the events counted for the type whether a rule ignores them or not; for a
\* normal type both counters are 0; an event without a timestamp is counted in
\* oncall_total and not in oncall_in_reperibilita; and the merge of results with
\* ordered counters has ordered counters
C26_OncallCountersConsistent ==
    /\ call.op = "analyze_alarms" =>
          LET Counts(m) == IsCounted(host, call.alarm_type, call.product_config, m)
          IN  OncallCountersOfCounted(call.out, call.alarm_type,
                                      SelectSeq(call.messages, Counts))
    /\ (/\ MergeReturned
        /\ \A i \in 1..Len(run[1].results) : OncallCountersOrdered(run[1].results[i]))
           => OncallCountersOrdered(run[1].merged)

(***************************************************************************)
(* scripts/kpi_report.py: the dates of a range, and the window of each     *)
(***************************************************************************)
\* the years of the dates written by strftime here
YearsWritten == 2024..2026

\* '%02d' % n, for n < 100
TwoDigits(n) == Str(n \div 10) \o Str(n % 10)

\* datetime.strftime('%d-%m-%y') of the midnight of a day (days since 1970-01-01)
strftime_dmy(day) ==
    LET ymd == CHOOSE ymd \in YearsWritten \X (1..12) \X (1..31) :
                   /\ ymd[3] <= DaysInMonth(ymd[1], ymd[2])
                   /\ DaysFromCivil(ymd[1], ymd[2], ymd[3]) = day
    IN  TwoDigits(ymd[3]) \o <<"-">> \o TwoDigits(ymd[2]) \o <<"-">>
        \o TwoDigits(ymd[1] % 100)

\* parse_date_range: the list of the dates of the range, a single date as it is
DatesBetween(start_date, end_date) ==
    IF start_date.kind = "raise" THEN start_date
    ELSE IF end_date.kind = "raise" THEN end_date
    ELSE IF start_date.value > end_date.value THEN Raise("ValueError")
    ELSE Value([i \in 1..(end_date.value - start_date.value + 1) |->
                   strftime_dmy(start_date.value + i - 1)])
DatesOfParts(date_range_str, parts) ==
    IF Len(parts) = 1 THEN Value(<<date_range_str>>)
    ELSE IF Len(parts) # 2 THEN Raise("ValueError")
    ELSE DatesBetween(strptime_dmy(parts[1]), strptime_dmy(parts[2]))
parse_date_range(date_range_str) == DatesOfParts(date_range_str, Split(date_range_str, ":"))

(***************************************************************************)
(* SpecWindows: the report takes the window of each date of a range        *)
(***************************************************************************)
\* the most days of a range
MaxRangeDays == 3

\* the first days of the ranges: about the two changes of offset of 2025, the
\* turn of the year, and the end of February of a leap year and of another
RangeStarts ==
    (DaysFromCivil(2025, 3, 28) .. DaysFromCivil(2025, 3, 31))
    \cup (DaysFromCivil(2025, 10, 24) .. DaysFromCivil(2025, 10, 27))
    \cup (DaysFromCivil(2024, 12, 30) .. DaysFromCivil(2025, 1, 1))
    \cup {DaysFromCivil(2024, 2, 28), DaysFromCivil(2025, 2, 27), DaysFromCivil(2025, 7, 16)}

\* the ranges asked for: DD-MM-YY:DD-MM-YY, the second date up to MaxRangeDays - 1
\* days after the first or the day before it, and single dates
RangeStrings ==
    { strftime_dmy(a) \o <<":">> \o strftime_dmy(a + k) :
        a \in RangeStarts, k \in (0 - 1)..(MaxRangeDays - 1) }
    \cup { strftime_dmy(a) : a \in RangeStarts }
    \cup { <<"0", "1", "-", "0", "1", "-", "2", "5", ":", " ", "2", "-", "0", "1", "-", "2", "5">>,
           <<" ", "1", "-", "0", "1", "-", "2", "5">> }

\* the windows of the dates, by the function window
WindowsOf(window(_), dates) ==
    IF dates.kind = "raise" THEN dates
    ELSE Value([i \in 1..Len(dates.value) |-> window(dates.value[i]).value])

\* parse_date_range(date_range_str)
ParseDateRange ==
    /\ call = Idle
    /\ \E date_range_str \in RangeStrings :
        call' = [op |-> "parse_date_range", date_range_str |-> date_range_str,
                 out |-> parse_date_range(date_range_str)]
    /\ UNCHANGED <<host, run, heap, engine>>

\* the loop of collect_kpi_data over the dates for a normal type, and the window
\* of the range as a whole
EveningWindowsOfRange ==
    /\ call = Idle
    /\ \E date_range_str \in RangeStrings :
        call' = [op |-> "evening_windows", date_range_str |-> date_range_str,
                 out |-> WindowsOf(get_evening_window, parse_date_range(date_range_str)),
                 whole |-> get_evening_window(date_range_str)]
    /\ UNCHANGED <<host, run, heap, engine>>

\* the loop of collect_kpi_data over the dates for an on-call type, and the
\* window of the range as a whole
OncallWindowsOfRange ==
    /\ call = Idle
    /\ \E date_range_str \in RangeStrings :
        call' = [op |-> "oncall_windows", date_range_str |-> date_range_str,
                 out |-> WindowsOf(get_oncall_window, parse_date_range(date_range_str)),
                 whole |-> get_oncall_window(date_range_str)]
    /\ UNCHANGED <<host, run, heap, engine>>

InitWindows == host = "UTC" /\ call = Idle /\ run = None /\ heap = <<>> /\ engine = None

NextWindows == ParseDateRange \/ EveningWindowsOfRange \/ OncallWindowsOfRange

SpecWindows == InitWindows /\ [][NextWindows]_vars

\* C27: the evening windows of consecutive days tile: the end of the window of a
\* day is the start of the window of the next, on the days the offset changes
\* too, and the window of a range A:B runs from the start of the window of A to
\* the end of the window of B
C27_EveningWindowsTile ==
    (call.op = "evening_windows" /\ call.out.kind = "value") =>
        /\ \A i \in 1..(Len(call.out.value) - 1) :
              call.out.value[i][2] = call.out.value[i + 1][1]
        /\ call.whole.kind = "value"
        /\ call.whole.value[1] = call.out.value[1][1]
        /\ call.whole.value[2] = call.out.value[Len(call.out.value)][2]

\* C27 witness: the windows of three consecutive days were taken, the second of
\* 23 hours (a day after the clocks went forward), and the window of the range
\* is as long as the three together
C27_Witness ==
    /\ call.op = "evening_windows"
    /\ call.out.kind = "value"
    /\ Len(call.out.value) = 3
    /\ call.out.value[1][2].s = PairAdd(call.out.value[1][1].s, 86400)
    /\ call.out.value[2][2].s = PairAdd(call.out.value[2][1].s, 82800)
    /\ call.whole.kind = "value"
    /\ call.whole.value[2].s = PairAdd(call.whole.value[1].s, 3 * 86400 - 3600)

\* C28: the on-call windows of consecutive days neither overlap nor leave a gap:
\* the end of the window of a day is earlier than the start of the window of the
\* next by less than a second (it ends at 23:59:59.999999), on the days the
\* offset changes too
C28_OncallWindowsAdjacent ==
    (call.op = "oncall_windows" /\ call.out.kind = "value") =>
        \A i \in 1..(Len(call.out.value) - 1) :
            /\ call.out.value[i][2].us = 999999
            /\ call.out.value[i + 1][1].us = 0
            /\ call.out.value[i + 1][1].s = PairAdd(call.out.value[i][2].s, 1)

(***************************************************************************)
(* A definition of a time constraint and the constraint constructed of it  *)
(***************************************************************************)
\* C29: a definition of a time constraint is never widened silently: when the
\* definition has an entry of a kind (periods, weekdays, hours), construction
\* raises or the constraint has a parsed entry of that kind, so a definition with
\* an entry never gives a constraint for which is_empty() is true
C29_DefinitionNeverWidened ==
    (call.op = "TimeConstraint" /\ call.out.kind = "value") =>
        /\ call.periods # <<>> => call.out.value.periods # <<>>
        /\ call.weekdays # <<>> => call.out.value.weekdays # <<>>
        /\ call.hours # <<>> => call.out.value.hours # <<>>
        /\ (call.periods # <<>> \/ call.weekdays # <<>> \/ call.hours # <<>>) =>
              ~TimeConstraint_is_empty(call.out.value)

(***************************************************************************)
(* SpecValidity: the ignore decision for a raw event with an epoch         *)
(* timestamp and a rule with a time constraint, taken on hosts of several  *)
(* zones: by the rule engine, and by analyze_alarms on the record it       *)
(* extracts on the host                                                    *)
(***************************************************************************)
\* the rule: it matches the events by the title of their attachment
ValidityRule(environments, validity, exclusions) ==
    Rule(Timeout, <<"attachments", "title">>, environments, PyNone, validity, exclusions)

\* IgnoreRuleParser(rules).should_ignore_message(message, environment) on the
\* host, for an alarm whose timestamp the extraction on the host gives as
\* alarm_timestamp
ShouldIgnoreAlarm(rules, message, environment, alarm_timestamp) ==
    call' = [op |-> "should_ignore_alarm", rules |-> rules, message |-> message,
             environment |-> environment, alarm_timestamp |-> alarm_timestamp,
             out |-> should_ignore_message(rules, message, environment)]

ShouldIgnoreTimedEvent ==
    /\ call = Idle
    /\ \E validity \in OptionalConstraints, exclusions \in OptionalConstraints,
          environments \in {<<>>, <<uat>>}, name \in {DBTimeout, DiskFull},
          u \in ValidityInstants, environment \in {prod, uat} :
        ShouldIgnoreAlarm(<<ValidityRule(environments, validity, exclusions)>>,
                          SendEvent(42, name, Str(u)), environment,
                          EventTimestamp(host, SendEvent(42, name, Str(u))))
    /\ UNCHANGED <<host, run, heap, engine>>

\* the batches analysed: an alarm, an event that is no alarm, and both
TimedBatches(u) ==
    { <<SendEvent(42, DBTimeout, Str(u))>>,
      <<NoiseEvent(Str(u))>>,
      <<NoiseEvent(Str(u)), SendEvent(42, DBTimeout, Str(u))>> }

\* analyze_alarms on the host for the normal alarm type of product_config
AnalyzeForNormalType(messages, product_config, alarm_types) ==
    call' = [op |-> "analyze_timed_events", messages |-> messages,
             alarm_type |-> alarm_types.value[1], product_config |-> product_config,
             out |-> analyze_alarms(host, messages, alarm_types.value[1], product_config)]

AnalyzeWithRule(messages, product_config) ==
    AnalyzeForNormalType(messages, product_config,
                         build_alarm_types(product_config, SEND, prod))

AnalyzeTimedEvents ==
    /\ call = Idle
    /\ \E validity \in OptionalConstraints, exclusions \in {None, Some(Night)},
          u \in ValidityInstants :
        \E messages \in TimedBatches(u) :
            AnalyzeWithRule(messages,
                ProductConfig(SEND, [e \in {prod} |-> Channel1],
                              <<ValidityRule(<<>>, validity, exclusions)>>, None))
    /\ UNCHANGED <<host, run, heap, engine>>

InitValidity ==
    host \in HostZones /\ call = Idle /\ run = None /\ heap = <<>> /\ engine = None

NextValidity == ShouldIgnoreTimedEvent \/ AnalyzeTimedEvents \/ ParseSlackTs

SpecValidity == InitValidity /\ [][NextValidity]_vars

\* a rule of the list applies to the environment and its pattern is in the
\* title of an attachment of the message: nothing of the host or of the time
DecidedByContent(rules, message, environment) ==
    \E i \in 1..Len(rules) :
        /\ \/ rules[i].environments = <<>>
           \/ environment \in Range(rules[i].environments)
        /\ SomeItemContains(message.attachments, "title", rules[i].pattern)

\* the classification of a run of analyze_alarms: the counters of its result,
\* or no result
SameClassification(here, there) ==
    /\ here.kind = "value" <=> there.kind = "value"
    /\ here.kind = "value" =>
          /\ here.value.total_alarms = there.value.total_alarms
          /\ here.value.ignored_alarms = there.value.ignored_alarms
          /\ here.value.analyzable_alarms = there.value.analyzable_alarms
          /\ Len(here.value.ignored_messages) = Len(there.value.ignored_messages)

\* C30: the ignore decision depends on the raw event, the rules and the
\* environment only: for a raw event with a given epoch timestamp and a rule with
\* a weekday, hour-range or period constraint, the decision of the rule engine
\* is, on a host of every zone, the one the content of the event, the rule and
\* the environment give, and a run of analyze_alarms over the event classifies
\* it (ignored, analyzable, or no result) as the run on a host in UTC does
C30_DecisionIndependentOfHost ==
    /\ call.op = "should_ignore_alarm" =>
          (call.out <=> DecidedByContent(call.rules, call.message, call.environment))
    /\ call.op = "analyze_timed_events" =>
          SameClassification(call.out,
                             analyze_alarms("UTC", call.messages, call.alarm_type,
                                            call.product_config))

\* C30 witness: on a host that is not in UTC the engine has decided to ignore an
\* alarm by a rule with a time constraint, and the rule is valid at the
\* timestamp extracted on one of the two hosts and not at the one extracted on
\* the other
C30_Witness ==
    /\ call.op = "should_ignore_alarm"
    /\ host # "UTC"
    /\ call.out
    /\ call.rules[1].validity # None
    /\ ~TimeConstraint_is_empty(call.rules[1].validity[1])
    /\ is_valid_at(call.rules[1], call.alarm_timestamp[1])
          # is_valid_at(call.rules[1], EventTimestamp("UTC", call.message)[1])

====
